---- MODULE Spec2Model ----
(***************************************************************************)
(* gaspass: multi-chain gas aggregation.                                   *)
(*                                                                         *)
(* The module models the aggregation library (rpcCall, fetchAllPrices,     *)
(* fetchGasFromRpc, fetchSolanaGas, getChainGasGwei, fetchAllChainsGas)    *)
(* and the two route handlers that call fetchAllChainsGas (the gas-all     *)
(* route and the collect route, which also persists the batch).            *)
(*                                                                         *)
(* Numbers.  A JavaScript number is a record: Num(n), NaN, or one of the   *)
(* markers Null / Pending / Rejected used for promise results.  EVM fees   *)
(* are carried in units of 1/Denom wei, so that the division by 1e9 (wei   *)
(* to gwei) is a change of unit and the mean of up to MaxReward tips is    *)
(* exact.  Prices are carried in US cents.  Times are milliseconds.        *)
(***************************************************************************)
EXTENDS Integers, Sequences, FiniteSets, TLC

(***************************************************************************)
(* Bounds of the model.                                                    *)
(***************************************************************************)
MaxTicks == 2       \* the clock advances at most MaxTicks half-TTL steps
MaxReward == 2      \* longest fee-history reward list of an endpoint probe
MaxFees == 3        \* longest Solana prioritization-fee list of a probe
MaxRows == 2        \* a collection starts only while fewer rows are stored
MaxTable == 3       \* longest history table of a query over all insertion orders
MaxSnapshots == 402 \* most snapshots in the window of a history query
MaxFetches == 5     \* most requests the dashboard page issues

RECURSIVE Fact(_)
Fact(n) == IF n <= 1 THEN 1 ELSE n * Fact(n - 1)

Denom == Fact(MaxReward)

(***************************************************************************)
(* JavaScript numbers and the promise-result markers.                      *)
(***************************************************************************)
Num(n) == [k |-> "num", v |-> n]
NaN == [k |-> "nan", v |-> 0]
Null == [k |-> "null", v |-> 0]
Pending == [k |-> "pending", v |-> 0]
Rejected == [k |-> "rejected", v |-> 0]

IsNum(x) == x.k = "num"

\* a + b
Plus(a, b) == IF IsNum(a) /\ IsNum(b) THEN Num(a.v + b.v) ELSE NaN

\* Math.max(a, b): NaN if either argument is NaN
MathMax(a, b) ==
  IF IsNum(a) /\ IsNum(b) THEN (IF a.v >= b.v THEN a ELSE b) ELSE NaN

\* a / n for a count n: 0 / 0 is NaN
DivCount(a, n) ==
  IF ~IsNum(a) \/ n = 0 THEN NaN ELSE Num(a.v \div n)

(***************************************************************************)
(* parseInt(s, 16).  A string is a sequence of one-character strings; a    *)
(* missing result is the string "undefined", as parseInt stringifies its   *)
(* argument.  An optional 0x prefix is skipped, the longest prefix of hex  *)
(* digits is parsed, and no digit at all yields NaN.                       *)
(***************************************************************************)
HexChars ==
  <<"0", "1", "2", "3", "4", "5", "6", "7", "8", "9",
    "a", "b", "c", "d", "e", "f">>

IsHex(ch) == \E i \in 1..Len(HexChars) : HexChars[i] = ch

HexVal(ch) == (CHOOSE i \in 1..Len(HexChars) : HexChars[i] = ch) - 1

StripPrefix(s) ==
  IF Len(s) >= 2 /\ s[1] = "0" /\ s[2] = "x" THEN SubSeq(s, 3, Len(s)) ELSE s

RECURSIVE HexPrefixLen(_)
HexPrefixLen(s) ==
  IF s = <<>> \/ ~IsHex(Head(s)) THEN 0 ELSE 1 + HexPrefixLen(Tail(s))

RECURSIVE HexValue(_, _)
HexValue(s, n) ==
  IF n = 0 THEN 0 ELSE 16 * HexValue(s, n - 1) + HexVal(s[n])

ParseInt16(s) ==
  LET t == StripPrefix(s)
      n == HexPrefixLen(t)
  IN IF n = 0 THEN NaN ELSE Num(HexValue(t, n))

Undefined == <<"u", "n", "d", "e", "f", "i", "n", "e", "d">>

\* parseInt(x, 16) / 1e9, in units of 1/Denom wei
ParseGwei(s) ==
  LET w == ParseInt16(s) IN IF IsNum(w) THEN Num(w.v * Denom) ELSE NaN

(***************************************************************************)
(* rpcCall.  An envelope is what the endpoint does with one request:       *)
(* transport "ok" | "timeout" (the abort fires and fetch rejects) |        *)
(* "nonjson" (res.json() or JSON.parse rejects); error: the parsed         *)
(* envelope has an error (a truthy error field); result: the envelope's    *)
(* result.  The outcome records the exit path: the fetch calls made, which *)
(* exception left the function, whether the timer callback aborted the     *)
(* request, and whether the finally block cleared the timer.               *)
(***************************************************************************)
Env(t, e, r) == [transport |-> t, error |-> e, result |-> r]

\* a variant that returns the result of an envelope with an error
rpcCallNoErrorCheck(env) ==
  [threw |-> env.transport # "ok", value |-> env.result, requests |-> 1,
   aborted |-> env.transport = "timeout",
   reason |-> IF env.transport = "timeout" THEN "AbortError"
              ELSE IF env.transport = "nonjson" THEN "SyntaxError"
              ELSE "",
   timerCleared |-> TRUE]

rpcCall(env) ==
  LET exit == IF env.transport = "timeout" THEN "AbortError"
              ELSE IF env.transport = "nonjson" THEN "SyntaxError"
              ELSE IF env.error THEN "error.message"
              ELSE ""
  IN [threw |-> exit # "", value |-> env.result, requests |-> 1,
      aborted |-> env.transport = "timeout", reason |-> exit,
      timerCleared |-> TRUE]

Throw == [threw |-> TRUE, value |-> NaN]
Return(x) == [threw |-> FALSE, value |-> x]

(***************************************************************************)
(* fetchGasFromRpc.  A fee-history result is                               *)
(* [isNull, baseFeePerGas, reward]: isNull models a null result, on which  *)
(* the property access throws a TypeError inside the inner try.            *)
(***************************************************************************)
FeeHistory(n, b, r) == [isNull |-> n, baseFeePerGas |-> b, reward |-> r]

\* r[0] of a reward row, undefined when the row is empty
FirstOf(r) == IF Len(r) = 0 THEN Undefined ELSE r[1]

RECURSIVE SumTips(_)
SumTips(tips) ==
  IF tips = <<>> THEN Num(0) ELSE Plus(SumTips(Tail(tips)), Head(tips))

FeeHistoryGwei(fh) ==
  LET baseFees == [i \in 1..Len(fh.baseFeePerGas) |->
                     ParseGwei(fh.baseFeePerGas[i])]
      tips == [i \in 1..Len(fh.reward) |-> ParseGwei(FirstOf(fh.reward[i]))]
      latestBase == IF Len(baseFees) = 0 THEN NaN ELSE baseFees[Len(baseFees)]
      avgTip == DivCount(SumTips(tips), Len(tips))
  IN Plus(latestBase, avgTip)

\* a variant without the legacy-price floor and without the inner catch
fetchGasFromRpcNoFloor(gp, fh, isEIP1559) ==
  LET r1 == rpcCall(gp) IN
  IF r1.threw THEN Throw
  ELSE LET gasPriceGwei == ParseGwei(r1.value) IN
       IF ~isEIP1559 THEN Return(gasPriceGwei)
       ELSE LET r2 == rpcCall(fh) IN
            IF r2.threw \/ r2.value.isNull THEN Throw
            ELSE Return(FeeHistoryGwei(r2.value))

fetchGasFromRpc(gp, fh, isEIP1559) ==
  LET r1 == rpcCall(gp) IN
  IF r1.threw THEN Throw
  ELSE LET gasPriceGwei == ParseGwei(r1.value) IN
       IF ~isEIP1559 THEN Return(gasPriceGwei)
       ELSE LET r2 == rpcCall(fh) IN
            IF r2.threw \/ r2.value.isNull THEN Return(gasPriceGwei)
            ELSE Return(MathMax(FeeHistoryGwei(r2.value), gasPriceGwei))

(***************************************************************************)
(* fetchSolanaGas.  A fee list result is [isNull, fees], fees the sequence *)
(* of prioritizationFee values.                                            *)
(***************************************************************************)
FeeList(n, f) == [isNull |-> n, fees |-> f]

\* .filter((f) => f > 0)
RECURSIVE FilterPositive(_)
FilterPositive(s) ==
  IF s = <<>> THEN <<>>
  ELSE (IF Head(s) > 0 THEN <<Head(s)>> ELSE <<>>) \o FilterPositive(Tail(s))

RECURSIVE Insert(_, _)
Insert(x, s) ==
  IF s = <<>> THEN <<x>>
  ELSE IF x <= Head(s) THEN <<x>> \o s
  ELSE <<Head(s)>> \o Insert(x, Tail(s))

\* a variant that leaves the array as it is
SortAscSkipped(s) == s

\* Array.prototype.sort((a, b) => a - b)
RECURSIVE SortAsc(_)
SortAsc(s) == IF s = <<>> THEN <<>> ELSE Insert(Head(s), SortAsc(Tail(s)))

\* a variant that takes the lower middle element
MedianIndexLower(n) == (n + 1) \div 2

\* Math.floor(nonZero.length / 2), as a 1-based index
MedianIndex(n) == (n \div 2) + 1

fetchSolanaGas(env) ==
  LET r == rpcCall(env) IN
  IF r.threw THEN Throw
  ELSE IF r.value.isNull \/ Len(r.value.fees) = 0 THEN Return(Num(0))
  ELSE LET nonZero == SortAsc(FilterPositive(r.value.fees)) IN
       IF Len(nonZero) = 0 THEN Return(Num(0))
       ELSE Return(Num(nonZero[MedianIndex(Len(nonZero))]))

(***************************************************************************)
(* Configuration and workload.  lib/chains supplies the chain list; the    *)
(* model carries it in the variable chains, fixed at start.  ChainsFull    *)
(* has an EIP-1559 EVM chain with two fallback endpoints, a Solana chain   *)
(* with one fallback endpoint and a legacy EVM chain with a primary        *)
(* endpoint only; the smaller lists keep overlapping passes and the        *)
(* history table small.                                                    *)
(***************************************************************************)
Ethereum(fallbacks) ==
  [id |-> "ethereum", nativeToken |-> "ethereum", chainType |-> "evm",
   isEIP1559 |-> TRUE, rpcUrl |-> "eth-a", rpcFallbacks |-> fallbacks]

Solana(fallbacks) ==
  [id |-> "solana", nativeToken |-> "solana", chainType |-> "solana",
   isEIP1559 |-> FALSE, rpcUrl |-> "sol-a", rpcFallbacks |-> fallbacks]

Bsc ==
  [id |-> "bsc", nativeToken |-> "binancecoin", chainType |-> "evm",
   isEIP1559 |-> FALSE, rpcUrl |-> "bsc-a", rpcFallbacks |-> <<>>]

ChainsFull == <<Ethereum(<<"eth-b", "eth-c">>), Solana(<<"sol-b">>), Bsc>>

\* const rpcs = [chain.rpcUrl, ...(chain.rpcFallbacks ?? [])]
Rpcs(chain) == <<chain.rpcUrl>> \o chain.rpcFallbacks

\* Request slots of the server: a slot holds one handler invocation
Slots == {1, 2}

(***************************************************************************)
(* Price cache (US cents).                                                 *)
(***************************************************************************)
FALLBACK_PRICES ==
  "ethereum" :> 250000 @@ "matic-network" :> 35 @@ "binancecoin" :> 60000 @@
  "avalanche-2" :> 2500 @@ "berachain-bera" :> 400 @@ "xdai" :> 100 @@
  "mantle" :> 75 @@ "celo" :> 50 @@ "solana" :> 15000 @@ "monad" :> 50

PRICE_CACHE_TTL == 120000

TickMs == PRICE_CACHE_TTL \div 2

\* Date.now() when the process starts serving
StartTime == 10 * PRICE_CACHE_TTL

\* [...new Set(chains.map((c) => c.nativeToken))]
uniqueTokens(cs) == {cs[i].nativeToken : i \in 1..Len(cs)}

\* a variant with the comparison the wrong way round
CacheFreshInverted(t, last) == t - last > PRICE_CACHE_TTL /\ last > 0

\* Date.now() - lastPriceFetch < PRICE_CACHE_TTL && lastPriceFetch > 0
CacheFresh(t, last) == t - last < PRICE_CACHE_TTL /\ last > 0

\* data[tokenId]?.usd, 0 standing for every falsy value
Usd(data, tokenId) ==
  IF tokenId \in DOMAIN data /\ data[tokenId].present
  THEN data[tokenId].usd ELSE 0

\* a variant that stores whatever the response carries
UpdatePricesUnchecked(cache, data, tokens) ==
  [t \in DOMAIN cache \cup tokens |->
     IF t \in tokens THEN Usd(data, t) ELSE cache[t]]

\* for (const tokenId of uniqueTokens)
\*   if (data[tokenId]?.usd) priceCache[tokenId] = data[tokenId].usd
UpdatePrices(cache, data, tokens) ==
  [t \in DOMAIN cache \cup {u \in tokens : Usd(data, u) # 0} |->
     IF t \in tokens /\ Usd(data, t) # 0 THEN Usd(data, t) ELSE cache[t]]

\* a variant whose failure path also advances the timestamp
PriceOutcomeStamped(r, cache, last, t, tokens) ==
  IF r.kind = "ok"
  THEN [cache |-> UpdatePrices(cache, r.data, tokens), last |-> t,
        state |-> "ok"]
  ELSE [cache |-> cache, last |-> t, state |-> "failed"]

\* fetchAllPrices from the response on: r.kind is "throw" (fetch or
\* res.json() rejects), "status" (the body carries a status field) or "ok"
PriceOutcome(r, cache, last, t, tokens) ==
  IF r.kind = "ok"
  THEN [cache |-> UpdatePrices(cache, r.data, tokens), last |-> t,
        state |-> "ok"]
  ELSE [cache |-> cache, last |-> last, state |-> "failed"]

\* prices[chain.nativeToken] ?? 0
PriceOf(prices, token) == IF token \in DOMAIN prices THEN prices[token] ELSE 0

(***************************************************************************)
(* What the network may answer in an aggregation pass.                     *)
(***************************************************************************)
Hex(a, b) == <<"0", "x", a, b>>

GasPriceReplies ==
  { Env("timeout", FALSE, Undefined),
    Env("ok", FALSE, Hex("1", "4")),
    Env("ok", FALSE, Undefined) }

NoFeeHistory == Env("ok", TRUE, FeeHistory(TRUE, <<>>, <<>>))

FeeHistoryReplies ==
  { NoFeeHistory,
    Env("ok", FALSE,
        FeeHistory(FALSE, <<Hex("0", "a"), Hex("1", "2")>>,
                   << <<Hex("0", "2")>>, <<Hex("0", "6")>> >>)) }

NoFeeList == Env("timeout", FALSE, FeeList(TRUE, <<>>))

SolanaReplies ==
  { NoFeeList,
    Env("ok", FALSE, FeeList(FALSE, <<>>)),
    Env("ok", FALSE, FeeList(FALSE, <<0, 0, 5, 10, 15>>)) }

Reply(gp, fh, sol) == [gp |-> gp, fh |-> fh, sol |-> sol]

\* the replies that matter to an attempt on an endpoint of chain
RepliesFor(chain) ==
  IF chain.chainType = "solana"
  THEN {Reply(Env("timeout", FALSE, Undefined), NoFeeHistory, s) :
          s \in SolanaReplies}
  ELSE IF chain.isEIP1559
  THEN {Reply(g, f, NoFeeList) : g \in GasPriceReplies, f \in FeeHistoryReplies}
  ELSE {Reply(g, NoFeeHistory, NoFeeList) : g \in GasPriceReplies}

Quote(p, u) == [present |-> p, usd |-> u]

QuotedTokens == {"ethereum", "solana", "binancecoin"}

NoData == [t \in QuotedTokens |-> Quote(FALSE, 0)]

PriceReplies ==
  { [kind |-> "throw", data |-> NoData],
    [kind |-> "status", data |-> NoData],
    [kind |-> "ok",
     data |-> [t \in QuotedTokens |->
                 IF t = "ethereum" THEN Quote(TRUE, 300000)
                 ELSE IF t = "solana" THEN Quote(TRUE, 0)
                 ELSE Quote(FALSE, 0)]],
    [kind |-> "ok",
     data |-> [t \in QuotedTokens |->
                 IF t = "ethereum" THEN Quote(TRUE, 300000)
                 ELSE IF t = "solana" THEN Quote(TRUE, 20000)
                 ELSE Quote(TRUE, 70000)]] }

(***************************************************************************)
(* State.                                                                  *)
(***************************************************************************)
VARIABLES
  chains,         \* the configured chain list
  traffic,        \* [handlers, slots]: which routes are requested, and how
                  \* many requests may be in progress at once
  now,            \* Date.now()
  priceCache,     \* token -> cents
  lastPriceFetch, \* time of the last successful price refresh, 0 if none
  gas_history,    \* the rows of table gas_history, in insertion order
  phase,          \* slot -> "idle" | "running" | "done"
  handler,        \* slot -> "gasAll" | "collect": the route invoked
  priceState,     \* slot -> "none" | "hit" | "inflight" | "ok" | "failed"
  priceSeen,      \* slot -> lastPriceFetch read by its fetchAllPrices call
  rpcIdx,         \* slot -> chain -> index in rpcs of the awaited endpoint
  gasResults,     \* slot -> chain -> Pending | Num | NaN | Null | Rejected
  tried,          \* slot -> chain -> the endpoint attempts made, in order
  batch,          \* slot -> what fetchAllChainsGas settled with
  response,       \* slot -> the HTTP response of the handler
  lastRequestAt,  \* time the last price request was issued, 0 if none
  probe,          \* an endpoint attempt in isolation: its input
  probeOut,       \* ... and its outcome
  chart,          \* the all-chains chart of the dashboard: [chainMap,
                  \* latestData], objects as sequences in insertion order
  credentials,    \* [secret, authorization, key]: CRON_SECRET, and what
                  \* the latest collect request presented
  home            \* the dashboard page: [selectedChain, gasData, history,
                  \* historyRef, pending, issued]

configVars == <<chains, traffic>>
cacheVars == <<priceCache, lastPriceFetch>>
passVars == <<phase, handler, priceState, priceSeen, rpcIdx, gasResults,
              tried, batch, response, lastRequestAt>>
probeVars == <<probe, probeOut>>
\* what lies around the aggregation engine
outerVars == <<chart, credentials, home>>
vars == <<configVars, now, cacheVars, gas_history, passVars, probeVars,
          outerVars>>

ChainIdx == 1..Len(chains)

NoBatch == [state |-> "none", timestamp |-> 0, chains |-> <<>>]
NoResponse ==
  [status |-> 0, ok |-> FALSE, collected |-> 0, timestamp |-> 0,
   chains |-> <<>>]

NoProbe ==
  [kind |-> "none", isEIP1559 |-> FALSE,
   gp |-> Env("timeout", FALSE, Undefined), fh |-> NoFeeHistory,
   sol |-> NoFeeList]
NotRun == [ran |-> FALSE, threw |-> FALSE, value |-> NaN]

\* The state after module load, under a configuration and a workload, at
\* time t with the rows of table stored
LoadedWith(cs, handlers, slots, t, table) ==
  /\ chains = cs
  /\ traffic = [handlers |-> handlers, slots |-> slots]
  /\ now = t
  /\ priceCache = FALLBACK_PRICES
  /\ lastPriceFetch = 0
  /\ gas_history = table
  /\ phase = [s \in Slots |-> "idle"]
  /\ handler = [s \in Slots |-> "gasAll"]
  /\ priceState = [s \in Slots |-> "none"]
  /\ priceSeen = [s \in Slots |-> 0]
  /\ rpcIdx = [s \in Slots |-> [c \in 1..Len(cs) |-> 1]]
  /\ gasResults = [s \in Slots |-> [c \in 1..Len(cs) |-> Pending]]
  /\ tried = [s \in Slots |-> [c \in 1..Len(cs) |-> <<>>]]
  /\ batch = [s \in Slots |-> NoBatch]
  /\ response = [s \in Slots |-> NoResponse]
  /\ lastRequestAt = 0
  /\ chart = [chainMap |-> <<>>, latestData |-> <<>>]
  \* the page after its first render: useState("ethereum"), and the effects
  \* have started the history load and the first fetchGasData
  /\ home = [selectedChain |-> "ethereum", gasData |-> "", history |-> <<>>,
             historyRef |-> [c \in {} |-> <<>>],
             pending |-> {[kind |-> "history", chain |-> "ethereum", id |-> 1],
                          [kind |-> "gas", chain |-> "ethereum", id |-> 2]},
             issued |-> 2]

\* a text as the sequence of its pieces; <<>> is the empty text, and also
\* stands for an absent header or parameter (both are falsy)
NoCredentials == [secret |-> <<>>, authorization |-> <<>>, key |-> <<>>]

Loaded(cs, handlers, slots) ==
  /\ LoadedWith(cs, handlers, slots, StartTime, <<>>)
  /\ credentials = NoCredentials

Idle == probe = NoProbe /\ probeOut = NotRun

\* the gas-all route, one request at a time, full chain list
Init == Loaded(ChainsFull, {"gasAll"}, 1) /\ Idle

\* the gas-all route, overlapping requests, one chain
InitOverlap == Loaded(<<Solana(<<>>)>>, {"gasAll"}, 2) /\ Idle

\* the collect route, one request at a time, two chains
InitCollect ==
  Loaded(<<Ethereum(<<>>), Solana(<<>>)>>, {"collect"}, 1) /\ Idle

(***************************************************************************)
(* getChainGasGwei: one turn of the loop over rpcs.  o is the outcome of   *)
(* the attempt on rpcs[i]; the result is the index awaited next and the    *)
(* value the promise settles with (Pending while the loop goes on).        *)
(***************************************************************************)
EndpointOutcome(chain, r) ==
  IF chain.chainType = "solana" THEN fetchSolanaGas(r.sol)
  ELSE fetchGasFromRpc(r.gp, r.fh, chain.isEIP1559)

\* a variant without the catch: the exception escapes
getChainGasGweiNoCatch(chain, i, o) ==
  IF ~o.threw THEN [idx |-> i, gas |-> o.value]
  ELSE [idx |-> i, gas |-> Rejected]

\* a variant that gives up after the primary endpoint
getChainGasGweiPrimaryOnly(chain, i, o) ==
  IF ~o.threw THEN [idx |-> i, gas |-> o.value]
  ELSE [idx |-> i, gas |-> Null]

\* a variant in which an earlier failure taints the value of a fallback
getChainGasGweiTainted(chain, i, o) ==
  IF ~o.threw THEN [idx |-> i, gas |-> IF i = 1 THEN o.value ELSE NaN]
  ELSE IF i < Len(Rpcs(chain)) THEN [idx |-> i + 1, gas |-> Pending]
  ELSE [idx |-> i, gas |-> Null]

\* a variant that tries a failed endpoint again
getChainGasGweiRetry(chain, i, o) ==
  IF ~o.threw THEN [idx |-> i, gas |-> o.value]
  ELSE [idx |-> i, gas |-> Pending]

getChainGasGwei(chain, i, o) ==
  IF ~o.threw THEN [idx |-> i, gas |-> o.value]
  ELSE IF i < Len(Rpcs(chain)) THEN [idx |-> i + 1, gas |-> Pending]
  ELSE [idx |-> i, gas |-> Null]

(***************************************************************************)
(* fetchAllChainsGas after Promise.all: the batch built from the settled   *)
(* gas results g and the price table.                                      *)
(***************************************************************************)
\* A USD amount is the product of a token amount and a token price; it is
\* carried as that pair (zero in one form only), as the product itself is
\* beyond the integer range.  EVM token amounts are in units of 1e-9 /
\* Denom of 1e-9 token (fee unit times gas), Solana amounts in tenths of a
\* lamport; the divisions by 1e9 are changes of unit.
ZeroUsd == [k |-> "num", token |-> 0, price |-> 0]
NaNUsd == [k |-> "nan", token |-> 0, price |-> 0]

\* amount * tokenPrice
TimesPrice(amount, tokenPrice) ==
  IF ~IsNum(amount) THEN NaNUsd
  ELSE IF amount.v = 0 \/ tokenPrice = 0 THEN ZeroUsd
  ELSE [k |-> "num", token |-> amount.v, price |-> tokenPrice]

\* Math.max(x, 0) of a USD amount
MaxZero(x) ==
  IF x.k # "num" THEN NaNUsd
  ELSE IF (x.token < 0) # (x.price < 0) THEN ZeroUsd
  ELSE x

SWAP_GAS_LIMIT == 150000
SOLANA_BASE_FEE_LAMPORTS == 5000

\* chain.signaturesPerSwap ?? 1 and chain.computeUnitsPerSwap ?? 300000
signaturesPerSwap(chain) ==
  IF "signaturesPerSwap" \in DOMAIN chain THEN chain.signaturesPerSwap ELSE 1
computeUnitsPerSwap(chain) ==
  IF "computeUnitsPerSwap" \in DOMAIN chain THEN chain.computeUnitsPerSwap
  ELSE 300000

\* swapCostToken of an EVM chain, totalSol of a Solana chain (compute-unit
\* counts are multiples of 100000, so tenths of a lamport are exact)
SwapTokens(chain, avgGwei) ==
  IF ~IsNum(avgGwei) THEN NaN
  ELSE IF chain.chainType = "solana"
  THEN LET sigs == signaturesPerSwap(chain)
           cu == computeUnitsPerSwap(chain)
           baseLamports == SOLANA_BASE_FEE_LAMPORTS * sigs
       IN Num(10 * baseLamports + (avgGwei.v * cu) \div 100000)
  ELSE Num(avgGwei.v * SWAP_GAS_LIMIT)

\* a variant without the floor at zero
SwapCostUsdUnclamped(chain, avgGwei, tokenPrice) ==
  TimesPrice(SwapTokens(chain, avgGwei), tokenPrice)

\* swapCostUsd of a batch entry
SwapCostUsd(chain, avgGwei, tokenPrice) ==
  MaxZero(TimesPrice(SwapTokens(chain, avgGwei), tokenPrice))

ChainGasResult(chain, avgGwei, prices) ==
  [chain |-> chain.id, avgGwei |-> avgGwei,
   swapCostUsd |-> SwapCostUsd(chain, avgGwei,
                               PriceOf(prices, chain.nativeToken)),
   tokenPrice |-> PriceOf(prices, chain.nativeToken),
   chainType |-> chain.chainType]

\* a variant that drops every falsy fee, zero included
RECURSIVE BatchChainsDropZero(_, _, _, _)
BatchChainsDropZero(cs, g, prices, i) ==
  IF i > Len(cs) THEN <<>>
  ELSE (IF g[i] = Null \/ g[i] = Num(0) THEN <<>>
        ELSE <<ChainGasResult(cs[i], g[i], prices)>>)
       \o BatchChainsDropZero(cs, g, prices, i + 1)

\* chains.map(...).filter((c) => c !== null), from index i on
RECURSIVE BatchChains(_, _, _, _)
BatchChains(cs, g, prices, i) ==
  IF i > Len(cs) THEN <<>>
  ELSE (IF g[i] = Null THEN <<>>
        ELSE <<ChainGasResult(cs[i], g[i], prices)>>)
       \o BatchChains(cs, g, prices, i + 1)

\* a variant in which one unresolved chain empties the batch
fetchAllChainsGasAllOrNothing(cs, g, prices, t) ==
  IF \E c \in 1..Len(cs) : g[c] = Rejected
  THEN [state |-> "rejected", timestamp |-> 0, chains |-> <<>>]
  ELSE [state |-> "resolved", timestamp |-> t,
        chains |-> IF \E c \in 1..Len(cs) : g[c] = Null THEN <<>>
                   ELSE BatchChains(cs, g, prices, 1)]

fetchAllChainsGas(cs, g, prices, t) ==
  IF \E c \in 1..Len(cs) : g[c] = Rejected
  THEN [state |-> "rejected", timestamp |-> 0, chains |-> <<>>]
  ELSE [state |-> "resolved", timestamp |-> t,
        chains |-> BatchChains(cs, g, prices, 1)]

\* Promise.all settles: every promise fulfilled, or one rejected
Settled(g, ps) ==
  \/ \E c \in DOMAIN g : g[c] = Rejected
  \/ /\ \A c \in DOMAIN g : g[c] # Pending
     /\ ps # "inflight"

(***************************************************************************)
(* Route handlers, from the point where fetchAllChainsGas settles.         *)
(***************************************************************************)
Rows(result) ==
  [i \in 1..Len(result.chains) |->
     [chain |-> result.chains[i].chain, avgGwei |-> result.chains[i].avgGwei,
      swapCostUsd |-> result.chains[i].swapCostUsd,
      tokenPrice |-> result.chains[i].tokenPrice,
      timestamp |-> result.timestamp]]

\* a variant without the transaction: the rows before the failing one stay
insertGasDataNoTransaction(rows, ok) ==
  IF ok THEN gas_history' = gas_history \o rows
  ELSE gas_history' = gas_history \o SubSeq(rows, 1, Len(rows) - 1)

\* insertGasData: one transaction; it throws (nothing stored) or stores all
insertGasData(rows, ok) ==
  IF ok THEN gas_history' = gas_history \o rows
  ELSE gas_history' = gas_history

Error500 ==
  [status |-> 500, ok |-> FALSE, collected |-> 0, timestamp |-> 0,
   chains |-> <<>>]

\* the collect route: rows, await insertGasData(rows), response; the catch
\* turns a rejection of either into a 500.  The insert may fail for reasons
\* of the store, and it does fail on a NaN, which SQLite binds as NULL to a
\* NOT NULL column
CollectGET(s, result) ==
  IF result.state = "rejected"
  THEN /\ gas_history' = gas_history
       /\ response' = [response EXCEPT ![s] = Error500]
  ELSE LET rows == Rows(result) IN
       \E insertOk \in {ok \in BOOLEAN :
                          ok => \A i \in DOMAIN rows :
                                  /\ IsNum(rows[i].avgGwei)
                                  /\ rows[i].swapCostUsd.k = "num"} :
         /\ insertGasData(rows, insertOk)
         /\ response' = [response EXCEPT ![s] =
              IF insertOk
              THEN [status |-> 200, ok |-> TRUE, collected |-> Len(rows),
                    timestamp |-> result.timestamp, chains |-> <<>>]
              ELSE Error500]

\* the gas-all route
GasAllGET(s, result) ==
  /\ gas_history' = gas_history
  /\ response' = [response EXCEPT ![s] =
       IF result.state = "rejected" THEN Error500
       ELSE [status |-> 200, ok |-> TRUE, collected |-> 0,
             timestamp |-> result.timestamp, chains |-> result.chains]]

\* the continuation of `await Promise.all(...)`, run when the last promise
\* of the pass in slot s settles; prices is the priceCache object itself
Continue(s, g, ps, prices) ==
  IF Settled(g, ps)
  THEN LET result == fetchAllChainsGas(chains, g, prices, now) IN
       /\ phase' = [phase EXCEPT ![s] = "done"]
       /\ batch' = [batch EXCEPT ![s] = result]
       /\ IF handler[s] = "collect" THEN CollectGET(s, result)
          ELSE GasAllGET(s, result)
  ELSE UNCHANGED <<phase, batch, response, gas_history>>

(***************************************************************************)
(* Actions.                                                                *)
(***************************************************************************)
\* A request for route h reaches the server and takes slot s:
\* fetchAllChainsGas runs up to its await.  fetchAllPrices either returns
\* the fresh cache or issues the request; every getChainGasGwei issues its
\* request to the primary endpoint.
\* text.replace(piece, ""): the first occurrence of the piece is removed
RemoveFirst(text, piece) ==
  LET at == {i \in DOMAIN text : text[i] = piece}
  IN IF at = {} THEN text
     ELSE LET i == CHOOSE k \in at : \A l \in at : k <= l
          IN SubSeq(text, 1, i - 1) \o SubSeq(text, i + 1, Len(text))

\* what the collect route compares with the secret: the Authorization header
\* without its first "Bearer ", or the key parameter when that is empty
provided(authorization, key) ==
  LET stripped == RemoveFirst(authorization, "Bearer ")
  IN IF stripped # <<>> THEN stripped ELSE key

AuthorizedEitherPlace(secret, authorization, key) ==
  \/ secret = <<>>
  \/ RemoveFirst(authorization, "Bearer ") = secret
  \/ key = secret

Authorized(secret, authorization, key) ==
  secret = <<>> \/ provided(authorization, key) = secret

Unauthorized401 ==
  [status |-> 401, ok |-> FALSE, collected |-> 0, timestamp |-> 0,
   chains |-> <<>>]

\* what a collect request can present when a secret is configured
Secret == <<"s", "3">>
Presented ==
  [authorization : {<<>>, <<"Bearer ">>, <<"Bearer ", "s", "3">>,
                    <<"Bearer ", "x">>, <<"s", "3">>,
                    <<"s", "Bearer ", "3">>},
   key : {<<>>, <<"s", "3">>, <<"x">>}]

\* A request arrives at route h in slot s. The collect route answers 401
\* before anything else when the secret is set and not presented.
StartPass(s, h) ==
  /\ s <= traffic.slots
  /\ h \in traffic.handlers
  /\ phase[s] # "running"
  /\ h = "collect" => Len(gas_history) < MaxRows
  /\ handler' = [handler EXCEPT ![s] = h]
  /\ rpcIdx' = [rpcIdx EXCEPT ![s] = [c \in ChainIdx |-> 1]]
  /\ gasResults' = [gasResults EXCEPT ![s] = [c \in ChainIdx |-> Pending]]
  /\ tried' = [tried EXCEPT ![s] = [c \in ChainIdx |-> <<>>]]
  /\ batch' = [batch EXCEPT ![s] = NoBatch]
  /\ priceSeen' = [priceSeen EXCEPT ![s] = lastPriceFetch]
  /\ \E p \in IF h = "collect" /\ credentials.secret # <<>>
              THEN Presented
              ELSE {[authorization |-> credentials.authorization,
                     key |-> credentials.key]} :
       /\ credentials' = [credentials EXCEPT
                            !.authorization = p.authorization, !.key = p.key]
       /\ IF h = "collect"
             /\ ~Authorized(credentials.secret, p.authorization, p.key)
          THEN /\ phase' = [phase EXCEPT ![s] = "done"]
               /\ priceState' = [priceState EXCEPT ![s] = "none"]
               /\ lastRequestAt' = lastRequestAt
               /\ response' = [response EXCEPT ![s] = Unauthorized401]
          ELSE /\ phase' = [phase EXCEPT ![s] = "running"]
               /\ priceState' = [priceState EXCEPT ![s] =
                    IF CacheFresh(now, lastPriceFetch)
                    THEN "hit" ELSE "inflight"]
               /\ lastRequestAt' =
                    IF CacheFresh(now, lastPriceFetch)
                    THEN lastRequestAt ELSE now
               /\ response' = [response EXCEPT ![s] = NoResponse]
  /\ UNCHANGED <<configVars, chart, home, now, cacheVars, gas_history,
                 probeVars>>

\* The price request of the pass in slot s completes.
PriceReply(s) ==
  /\ phase[s] = "running"
  /\ priceState[s] = "inflight"
  /\ \E r \in PriceReplies :
       LET o == PriceOutcome(r, priceCache, lastPriceFetch, now,
                             uniqueTokens(chains))
       IN /\ priceCache' = o.cache
          /\ lastPriceFetch' = o.last
          /\ priceState' = [priceState EXCEPT ![s] = o.state]
          /\ Continue(s, gasResults[s], o.state, o.cache)
  /\ UNCHANGED <<configVars, outerVars, now, handler, priceSeen, rpcIdx, gasResults,
                 tried, lastRequestAt, probeVars>>

\* The attempt of the pass in slot s on the awaited endpoint of chain c
\* completes.
EndpointReply(s, c) ==
  /\ phase[s] = "running"
  /\ gasResults[s][c] = Pending
  /\ \E r \in RepliesFor(chains[c]) :
       \E o \in {EndpointOutcome(chains[c], r)} :
         \E st \in {getChainGasGwei(chains[c], rpcIdx[s][c], o)} :
           \E g \in {[gasResults[s] EXCEPT ![c] = st.gas]} :
             /\ rpcIdx' = [rpcIdx EXCEPT ![s][c] = st.idx]
             /\ gasResults' = [gasResults EXCEPT ![s] = g]
             /\ tried' = [tried EXCEPT ![s][c] =
                  Append(@, [rpc |-> Rpcs(chains[c])[rpcIdx[s][c]],
                             reply |-> r, threw |-> o.threw,
                             value |-> o.value])]
             /\ Continue(s, g, priceState[s], priceCache)
  /\ UNCHANGED <<configVars, outerVars, now, cacheVars, handler, priceState, priceSeen,
                 lastRequestAt, probeVars>>

\* Time passes.
Tick ==
  /\ now < StartTime + MaxTicks * TickMs
  /\ now' = now + TickMs
  /\ UNCHANGED <<configVars, outerVars, cacheVars, gas_history, passVars, probeVars>>

Next ==
  \/ \E s \in Slots, h \in {"gasAll", "collect"} : StartPass(s, h)
  \/ \E s \in Slots : PriceReply(s)
  \/ \E s \in Slots, c \in ChainIdx : EndpointReply(s, c)
  \/ Tick

Spec == Init /\ [][Next]_vars

SpecOverlap == InitOverlap /\ [][Next]_vars

SpecCollect == InitCollect /\ [][Next]_vars

\* the collect route of a deployment whose CRON_SECRET is set
InitAuth ==
  /\ LoadedWith(<<Solana(<<>>)>>, {"collect"}, 1, StartTime, <<>>)
  /\ credentials = [NoCredentials EXCEPT !.secret = Secret]
  /\ Idle

SpecAuth == InitAuth /\ [][Next]_vars

\* A pass over an EVM chain with two fallback endpoints and a chain with a
\* primary endpoint only, one clock step before the end of the model's time
InitSettling ==
  /\ LoadedWith(<<Ethereum(<<"eth-b", "eth-c">>), Bsc>>, {"gasAll"}, 1,
                StartTime + (MaxTicks - 1) * TickMs, <<>>)
  /\ credentials = NoCredentials
  /\ Idle

\* Every request in flight settles: an endpoint request by its reply or by
\* the abort that the timer of rpcCall fires, the price request by its
\* reply or by the failure of the fetch.  This is weak fairness of
\* PriceReply(s) and of EndpointReply(s, c), the latter written out: the
\* action is enabled exactly while the chain's result is pending in a
\* running pass, and it is the only one that adds an attempt to tried[s][c].
Settling ==
  \A s \in Slots :
    /\ WF_vars(PriceReply(s))
    /\ \A c \in 1..2 :
         \/ []<>(~(phase[s] = "running" /\ gasResults[s][c] = Pending))
         \/ []<><<Len(tried'[s][c]) > Len(tried[s][c])>>_vars

SpecSettling == InitSettling /\ [][Next]_vars /\ Settling

(***************************************************************************)
(* An endpoint attempt in isolation: fetchGasFromRpc / fetchSolanaGas      *)
(* applied to one pair of replies drawn from a wider set.                  *)
(***************************************************************************)
SeqsUpTo(S, n) == UNION {[1..k -> S] : k \in 0..n}

Probes ==
  LET
      ProbeGasPrices ==
        {Env("ok", FALSE, h) :
           h \in {Hex("0", "a"), Hex("1", "e"), <<"0", "x">>, <<"1", "z">>,
                  Undefined}}
        \cup {Env("timeout", FALSE, Undefined), Env("nonjson", FALSE, Undefined),
              Env("ok", TRUE, Undefined)}
      ProbeFeeHistories ==
        {Env("ok", FALSE, FeeHistory(FALSE, b, r)) :
           b \in SeqsUpTo({Hex("0", "0"), Hex("1", "4")}, 2),
           r \in SeqsUpTo({<<>>, <<Hex("0", "2")>>, <<Hex("0", "5")>>}, MaxReward)}
        \cup {Env("ok", FALSE, FeeHistory(TRUE, <<>>, <<>>)),
              Env("timeout", FALSE, FeeHistory(TRUE, <<>>, <<>>)),
              NoFeeHistory}
      ProbeFeeLists ==
        {Env("ok", FALSE, FeeList(FALSE, f)) :
           f \in SeqsUpTo({-5, 0, 5, 10, 15}, MaxFees)}
        \cup {Env("ok", FALSE, FeeList(TRUE, <<>>)), NoFeeList,
              Env("ok", TRUE, FeeList(TRUE, <<>>))}
  IN
  {[kind |-> "evm", isEIP1559 |-> e, gp |-> g, fh |-> f, sol |-> NoFeeList] :
     e \in BOOLEAN, g \in ProbeGasPrices, f \in ProbeFeeHistories}
  \cup
  {[kind |-> "solana", isEIP1559 |-> FALSE,
    gp |-> Env("timeout", FALSE, Undefined), fh |-> NoFeeHistory, sol |-> l] :
     l \in ProbeFeeLists}

\* the cost of a swap in isolation: a chain, its fee and a price table
SolanaHeavy ==
  [id |-> "solana", nativeToken |-> "solana", chainType |-> "solana",
   isEIP1559 |-> FALSE, rpcUrl |-> "sol-a", rpcFallbacks |-> <<>>,
   signaturesPerSwap |-> 2, computeUnitsPerSwap |-> 200000]

CostProbes ==
  LET
      PriceTables ==
        { FALLBACK_PRICES,
          [FALLBACK_PRICES EXCEPT !["ethereum"] = -250000, !["solana"] = -15000],
          [t \in {"binancecoin"} |-> FALLBACK_PRICES[t]] }
  IN
  {[kind |-> "cost", chain |-> c, avgGwei |-> a, prices |-> p] :
     c \in {Ethereum(<<>>), Bsc, Solana(<<>>), SolanaHeavy},
     a \in {NaN, Num(-10), Num(0), Num(10), Num(45)},
     p \in PriceTables}

InitProbe ==
  /\ Loaded(ChainsFull, {"gasAll"}, 1)
  /\ probe \in Probes \cup CostProbes
  /\ probeOut = NotRun

\* The batch entry of one chain is built.
RunCost ==
  /\ probe.kind = "cost"
  /\ ~probeOut.ran
  /\ probeOut' = [ran |-> TRUE, threw |-> FALSE,
                  value |-> ChainGasResult(probe.chain, probe.avgGwei,
                                           probe.prices)]
  /\ UNCHANGED <<configVars, outerVars, now, cacheVars, gas_history, passVars, probe>>

RunProbe ==
  /\ probe.kind \in {"evm", "solana"}
  /\ ~probeOut.ran
  /\ LET o == EndpointOutcome([chainType |-> probe.kind,
                               isEIP1559 |-> probe.isEIP1559],
                              Reply(probe.gp, probe.fh, probe.sol))
     IN probeOut' = [ran |-> TRUE, threw |-> o.threw, value |-> o.value]
  /\ UNCHANGED <<configVars, outerVars, now, cacheVars, gas_history, passVars, probe>>

NextProbe == RunProbe \/ RunCost

SpecProbe == InitProbe /\ [][NextProbe]_vars

(***************************************************************************)
(* The per-chain gas route (GET /api/gas?chain=...).  Tier values are      *)
(* carried in twentieths of the fee unit of the chain family (1/Denom wei  *)
(* for EVM, micro-lamports per compute unit for Solana), so that the       *)
(* factors 0.85 = 17/20 and 1.15 = 23/20 are exact.                        *)
(***************************************************************************)
\* x, as a tier value
Tier(x) == IF IsNum(x) THEN Num(20 * x.v) ELSE NaN

\* x * 0.85 and x * 1.15, as tier values
Times085(x) == IF IsNum(x) THEN Num(17 * x.v) ELSE NaN
Times115(x) == IF IsNum(x) THEN Num(23 * x.v) ELSE NaN

\* JSON.stringify of a number: NaN and undefined are not representable
Json(x) == IF IsNum(x) THEN x ELSE Null

\* r[k - 1] of a reward row, undefined beyond its end
TipAt(r, k) == IF Len(r) < k THEN Undefined ELSE r[k]

\* rewards.reduce((s, r) => s + r.<field>, 0) / rewards.length
AvgTip(fh, k) ==
  LET tips == [i \in 1..Len(fh.reward) |-> ParseGwei(TipAt(fh.reward[i], k))]
  IN DivCount(SumTips(tips), Len(tips))

\* baseFees[baseFees.length - 1]
LatestBaseFee(fh) ==
  IF Len(fh.baseFeePerGas) = 0 THEN NaN
  ELSE ParseGwei(fh.baseFeePerGas[Len(fh.baseFeePerGas)])

RECURSIVE SumSeq(_)
SumSeq(s) == IF s = <<>> THEN 0 ELSE Head(s) + SumSeq(Tail(s))

\* the mean of gasUsedRatio times 100; ratios are carried in percent and
\* the mean in 1/Denom percent
AvgUtilization(fh) ==
  DivCount(Num(SumSeq(fh.gasUsedRatio) * Denom), Len(fh.gasUsedRatio))

\* low / average / high on the fee-history path
FeeHistoryTiers(fh, currentGasPrice) ==
  LET baseFee == LatestBaseFee(fh) IN
  [low |-> MathMax(Tier(Plus(baseFee, AvgTip(fh, 1))),
                   Times085(currentGasPrice)),
   average |-> MathMax(Tier(Plus(baseFee, AvgTip(fh, 2))),
                       Tier(currentGasPrice)),
   high |-> MathMax(Tier(Plus(baseFee, AvgTip(fh, 3))),
                    Times115(currentGasPrice))]

\* a variant with a 10% band
FallbackTiersNarrow(average) ==
  [low |-> IF IsNum(average) THEN Num(18 * average.v) ELSE NaN,
   average |-> Tier(average),
   high |-> IF IsNum(average) THEN Num(22 * average.v) ELSE NaN]

\* low / average / high as a band around one value
FallbackTiers(average) ==
  [low |-> Times085(average), average |-> Tier(average),
   high |-> Times115(average)]

\* a block is [isNull, txCount, gasUsed, gasLimit]
Block(n, t, u, l) == [isNull |-> n, txCount |-> t, gasUsed |-> u, gasLimit |-> l]

\* txCount, gasUsed and gasLimit of the latest block
BlockStats(b) ==
  [txCount |-> IF b.isNull THEN 0 ELSE b.txCount,
   gasUsed |-> ParseInt16(IF b.isNull THEN <<"0", "x", "0">> ELSE b.gasUsed),
   gasLimit |-> ParseInt16(IF b.isNull THEN <<"0", "x", "0">>
                           ELSE b.gasLimit)]

\* blockGasLimit > 0 ? (blockGasUsed / blockGasLimit) * 100 : 0, in 1/Denom
\* percent
BlockUtilization(st) ==
  IF IsNum(st.gasLimit) /\ st.gasLimit.v > 0
  THEN (IF IsNum(st.gasUsed)
        THEN Num((st.gasUsed.v * 100 * Denom) \div st.gasLimit.v) ELSE NaN)
  ELSE Num(0)

NetworkStats(t, u, l, util) ==
  [txCount |-> t, gasUsed |-> u, gasLimit |-> l, utilization |-> util]

\* NextResponse.json(...) of the gas route; every number goes through
\* JSON.stringify
GasResponse(status, id, bn, tiers, baseFee, t, stats) ==
  [ran |-> TRUE, status |-> status, chain |-> id, blockNumber |-> Json(bn),
   low |-> Json(tiers.low), average |-> Json(tiers.average),
   high |-> Json(tiers.high), baseFee |-> Json(baseFee), timestamp |-> t,
   networkStats |-> stats]

\* an error response: no chain, no tiers, no statistics
GasError(status) ==
  GasResponse(status, "", Null,
              [low |-> Null, average |-> Null, high |-> Null], Null, 0,
              NetworkStats(0, Null, Null, Null))

\* percentile(arr, p) for p = num / 4
percentile(arr, num) ==
  IF Len(arr) = 0 THEN 0
  ELSE LET idx == (Len(arr) * num) \div 4
       IN arr[(IF idx <= Len(arr) - 1 THEN idx ELSE Len(arr) - 1) + 1]

\* Math.round(a / b) for a >= 0, b > 0
Round(a, b) == (2 * a + b) \div (2 * b)

\* handleSolanaGas: fees, slot and perf are the three replies; the result is
\* the response, or Rejected when the function throws
handleSolanaGas(chain, fees, slot, perf, t) ==
  LET r1 == rpcCall(fees)
      r2 == rpcCall(slot)
  IN
  IF r1.threw \/ r2.threw \/ r1.value.isNull THEN Rejected
  ELSE LET feeValues == SortAsc(r1.value.fees)
           r3 == rpcCall(perf)
           tps == IF r3.threw \/ Len(r3.value) = 0 THEN 0
                  ELSE Round(r3.value[1].numTransactions,
                             r3.value[1].samplePeriodSecs)
       IN GasResponse(200, chain.id, Num(r2.value),
                      [low |-> Tier(Num(percentile(feeValues, 1))),
                       average |-> Tier(Num(percentile(feeValues, 2))),
                       high |-> Tier(Num(percentile(feeValues, 3)))],
                      Num(SOLANA_BASE_FEE_LAMPORTS), t,
                      NetworkStats(tps, Num(0), Num(0), Num(0)))

\* the +/-15% path of GET: the band around the legacy gas price and a
\* second latest-block request; baseFee is whatever the fee-history path
\* had assigned before it was left
EvmFallback(chain, req, bn, currentGasPrice, baseFee, t) ==
  LET b == rpcCall(req.block2) IN
  IF b.threw THEN GasError(502)
  ELSE LET st == BlockStats(b.value) IN
       GasResponse(200, chain.id, bn, FallbackTiers(currentGasPrice),
                   baseFee, t,
                   NetworkStats(st.txCount, Json(st.gasUsed),
                                Json(st.gasLimit), Json(BlockUtilization(st))))

\* the fee-history path of GET; any exception inside it leads to the
\* +/-15% path
EvmFeeHistory(chain, req, bn, currentGasPrice, t) ==
  LET h == rpcCall(req.fh) IN
  IF h.threw \/ h.value.isNull
  THEN EvmFallback(chain, req, bn, currentGasPrice, Null, t)
  ELSE LET fh == h.value
           baseFee == Tier(LatestBaseFee(fh))
           b == rpcCall(req.block1)
       IN IF b.threw
          THEN EvmFallback(chain, req, bn, currentGasPrice, baseFee, t)
          ELSE LET st == BlockStats(b.value) IN
               GasResponse(200, chain.id, bn,
                           FeeHistoryTiers(fh, currentGasPrice), baseFee, t,
                           NetworkStats(st.txCount, Json(st.gasUsed),
                                        Json(st.gasLimit),
                                        Json(AvgUtilization(fh))))

\* chains.find((c) => c.id === chainId), 0 if there is none
FindChain(cs, id) ==
  IF \E i \in 1..Len(cs) : cs[i].id = id
  THEN CHOOSE i \in 1..Len(cs) :
         cs[i].id = id /\ \A j \in 1..(i - 1) : cs[j].id # id
  ELSE 0

\* GET of the gas route
GasGET(cs, req, t) ==
  LET c == FindChain(cs, req.chain) IN
  IF c = 0 THEN GasError(400)
  ELSE IF cs[c].chainType = "solana"
  THEN LET r == handleSolanaGas(cs[c], req.sol, req.slot, req.perf, t)
       IN IF r = Rejected THEN GasError(502) ELSE r
  ELSE LET r1 == rpcCall(req.blockNumber)
           r2 == rpcCall(req.gp)
       IN IF r1.threw \/ r2.threw THEN GasError(502)
          ELSE LET bn == ParseInt16(r1.value)
                   currentGasPrice == ParseGwei(r2.value)
               IN IF cs[c].isEIP1559
                  THEN EvmFeeHistory(cs[c], req, bn, currentGasPrice, t)
                  ELSE EvmFallback(cs[c], req, bn, currentGasPrice, Null, t)

(***************************************************************************)
(* The routes in isolation: one request, with the replies of the endpoints *)
(* it contacts, and the response it gets.                                  *)
(***************************************************************************)
RouteFeeHistory(b, r, u) ==
  [isNull |-> FALSE, baseFeePerGas |-> b, reward |-> r, gasUsedRatio |-> u]

NullFeeHistory ==
  [isNull |-> TRUE, baseFeePerGas |-> <<>>, reward |-> <<>>,
   gasUsedRatio |-> <<>>]

GasRequest(id, bn, gp, fh, b1, b2, sol, slot, perf) ==
  [kind |-> "gas", chain |-> id, blockNumber |-> bn, gp |-> gp, fh |-> fh,
   block1 |-> b1, block2 |-> b2, sol |-> sol, slot |-> slot, perf |-> perf]

NoRequestSent ==
  GasRequest("", Env("timeout", FALSE, Undefined),
             Env("timeout", FALSE, Undefined),
             Env("timeout", FALSE, NullFeeHistory),
             Env("timeout", FALSE, Block(TRUE, 0, <<>>, <<>>)),
             Env("timeout", FALSE, Block(TRUE, 0, <<>>, <<>>)),
             NoFeeList, Env("timeout", FALSE, 0), Env("timeout", FALSE, <<>>))

GasRequests ==
  LET
      RewardRows ==
        { <<Hex("0", "1"), Hex("0", "2"), Hex("0", "5")>>,
          <<Hex("0", "3"), Hex("0", "4"), Hex("0", "7")>>,
          <<Hex("0", "5"), Hex("0", "1"), Hex("0", "9")>>,
          <<Hex("0", "1")>> }
      RouteFeeHistories ==
        {Env("ok", FALSE, RouteFeeHistory(b, r, u)) :
           b \in {<<>>, <<Hex("1", "4")>>, <<Hex("0", "0"), Hex("1", "4")>>},
           r \in SeqsUpTo(RewardRows, MaxReward),
           u \in {<<>>, <<40, 60>>}}
        \cup {Env("ok", FALSE, NullFeeHistory), Env("timeout", FALSE, NullFeeHistory)}
      BlockReplies ==
        { Env("timeout", FALSE, Block(TRUE, 0, <<>>, <<>>)),
          Env("ok", FALSE, Block(TRUE, 0, <<>>, <<>>)),
          Env("ok", FALSE, Block(FALSE, 3, Hex("3", "2"), Hex("6", "4"))) }
      RouteGasPrices ==
        { Env("ok", FALSE, Hex("1", "6")), Env("ok", FALSE, Hex("1", "e")),
          Env("ok", FALSE, Undefined), Env("ok", TRUE, Undefined) }
      BlockNumberReplies ==
        { Env("ok", FALSE, Hex("0", "a")), Env("timeout", FALSE, Undefined) }
      RouteFeeLists ==
        {Env("ok", FALSE, FeeList(FALSE, f)) : f \in SeqsUpTo({0, 5, 10, 15}, MaxFees)}
        \cup {Env("ok", FALSE, FeeList(TRUE, <<>>)), NoFeeList}
      SlotReplies == { Env("ok", FALSE, 7), Env("timeout", FALSE, 0) }
      PerfReplies ==
        { Env("timeout", FALSE, <<>>), Env("ok", FALSE, <<>>),
          Env("ok", FALSE, <<[numTransactions |-> 1200, samplePeriodSecs |-> 60]>>),
          Env("ok", FALSE, <<[numTransactions |-> 90, samplePeriodSecs |-> 60]>>) }
  IN
  {[NoRequestSent EXCEPT !.chain = "ethereum", !.blockNumber = bn, !.gp = gp,
                         !.fh = fh, !.block1 = b1, !.block2 = b2] :
     bn \in BlockNumberReplies, gp \in RouteGasPrices,
     fh \in RouteFeeHistories, b1 \in BlockReplies, b2 \in BlockReplies}
  \cup
  {[NoRequestSent EXCEPT !.chain = "bsc", !.blockNumber = bn, !.gp = gp,
                         !.block2 = b2] :
     bn \in BlockNumberReplies, gp \in RouteGasPrices, b2 \in BlockReplies}
  \cup
  {[NoRequestSent EXCEPT !.chain = "solana", !.sol = l, !.slot = sl,
                         !.perf = pf] :
     l \in RouteFeeLists, sl \in SlotReplies, pf \in PerfReplies}
  \cup
  {[NoRequestSent EXCEPT !.chain = "dogecoin"]}

(***************************************************************************)
(* The history store queries and the history route.  A window length is    *)
(* carried in hundredths of an hour (36000 ms).                            *)
(***************************************************************************)
RECURSIVE DigitPrefixLen(_)
DigitPrefixLen(s) ==
  IF s = <<>> \/ ~IsHex(Head(s)) \/ HexVal(Head(s)) >= 10 THEN 0
  ELSE 1 + DigitPrefixLen(Tail(s))

RECURSIVE DecValue(_, _)
DecValue(s, n) == IF n = 0 THEN 0 ELSE 10 * DecValue(s, n - 1) + HexVal(s[n])

\* parseFloat(s) in hundredths, for a string of an optional minus sign,
\* digits, and a point followed by at most two digits; what follows the
\* longest such prefix is ignored, and no digit at all yields NaN
ParseFloat(s) ==
  LET neg == Len(s) > 0 /\ s[1] = "-"
      body == IF neg THEN Tail(s) ELSE s
      ni == DigitPrefixLen(body)
      rest == SubSeq(body, ni + 1, Len(body))
      frac == IF Len(rest) > 0 /\ rest[1] = "." THEN Tail(rest) ELSE <<>>
      nf == DigitPrefixLen(frac)
      mag == 100 * DecValue(body, ni)
               + (IF nf >= 1 THEN 10 * HexVal(frac[1]) ELSE 0)
               + (IF nf >= 2 THEN HexVal(frac[2]) ELSE 0)
  IN IF ni = 0 /\ nf = 0 THEN NaN ELSE Num(IF neg THEN 0 - mag ELSE mag)

\* Math.min(a, b): NaN if either argument is NaN
MathMin(a, b) ==
  IF IsNum(a) /\ IsNum(b) THEN (IF a.v <= b.v THEN a ELSE b) ELSE NaN

\* a query parameter is [present, text]: absent (searchParams.get gives
\* null) or a string
\* param || fallback, for a parameter read as text
OrElse(param, fallback) ==
  IF param.present /\ param.text # <<>> THEN param.text ELSE fallback

\* a chain parameter is [present, id]
\* chain || "all"
ChainOrAll(param) == IF param.present /\ param.id # "" THEN param.id ELSE "all"

\* Math.min(Math.max(parseFloat(hours || "24"), 0.1), 168)
HistoryHours(param) ==
  MathMin(MathMax(ParseFloat(OrElse(param, <<"2", "4">>)), Num(10)),
          Num(16800))

\* Date.now() - hours * 3600_000
Since(t, hours) == IF IsNum(hours) THEN Num(t - hours.v * 36000) ELSE NaN

\* WHERE [chain = ? AND] timestamp > ?, in the order of insertion; a NaN
\* bound to the statement is NULL, which no timestamp exceeds
Where(table, chain, since) ==
  SelectSeq(table,
            LAMBDA row : /\ IsNum(since) /\ row.timestamp > since.v
                         /\ chain \in {"all", row.chain})

\* ORDER BY timestamp ASC; rows of one timestamp stay in insertion order
RECURSIVE OrderByTimestamp(_)
OrderByTimestamp(s) ==
  IF Len(s) <= 1 THEN s
  ELSE LET p == s[(Len(s) + 1) \div 2].timestamp
       IN OrderByTimestamp(SelectSeq(s, LAMBDA r : r.timestamp < p))
          \o SelectSeq(s, LAMBDA r : r.timestamp = p)
          \o OrderByTimestamp(SelectSeq(s, LAMBDA r : r.timestamp > p))

\* a variant without the ORDER BY clause
SelectUnordered(table, chain, since) == Where(table, chain, since)

\* the SELECT statement of the two queries
Select(table, chain, since) == OrderByTimestamp(Where(table, chain, since))

\* the elements of s with their 0-based indices
Indexed(s) == [i \in 1..Len(s) |-> [i |-> i - 1, at |-> s[i]]]

\* Array.from(grouped.entries()) of the Map from timestamp to
\* {chain: swap_cost_usd}: the keys in the order of their first row, every
\* chain of a key with the cost of its last row
GroupByTimestamp(rows) ==
  LET first == SelectSeq(Indexed(rows),
                 LAMBDA x : \A j \in 1..x.i :
                              rows[j].timestamp # x.at.timestamp)
      of(t) == {j \in 1..Len(rows) : rows[j].timestamp = t}
      last(t, c) == CHOOSE j \in of(t) :
                      /\ rows[j].chain = c
                      /\ \A k \in of(t) : rows[k].chain = c => k <= j
  IN [n \in 1..Len(first) |->
        LET t == first[n].at.timestamp IN
        [timestamp |-> t,
         chains |-> [c \in {rows[j].chain : j \in of(t)} |->
                       rows[last(t, c)].swapCostUsd]]]

\* points.filter((_, i) => i % step === 0)
Stride(points, step) ==
  LET kept == SelectSeq(Indexed(points), LAMBDA x : x.i % step = 0)
  IN [n \in 1..Len(kept) |-> kept[n].at]

MaxPoints == 200

\* a variant that rounds the step down
DownsampleFloor(points) ==
  IF Len(points) > MaxPoints
  THEN Stride(points, Len(points) \div MaxPoints)
  ELSE points

\* if (points.length > 200) { step = Math.ceil(points.length / 200); ... }
Downsample(points) ==
  IF Len(points) > MaxPoints
  THEN Stride(points, (Len(points) + MaxPoints - 1) \div MaxPoints)
  ELSE points

queryAllChainsHistory(table, hours, t) ==
  LET rows == Select(table, "all", Since(t, hours))
  IN IF Len(rows) = 0 THEN <<>>
     ELSE Downsample(GroupByTimestamp(rows))

queryChainHistory(table, chain, hours, t) ==
  LET rows == Select(table, chain, Since(t, hours))
  IN IF Len(rows) = 0 THEN <<>>
     ELSE Downsample([i \in 1..Len(rows) |->
                        [timestamp |-> rows[i].timestamp]
                          @@ FallbackTiers(rows[i].avgGwei)])

\* GET of the history route; hours records the window it queried
HistoryGET(table, req, t) ==
  LET chain == ChainOrAll(req.chain)
      hours == HistoryHours(req.hours)
  IN [ran |-> TRUE, status |-> 200, hours |-> hours,
      points |-> IF chain = "all"
                 THEN queryAllChainsHistory(table, hours, t)
                 ELSE queryChainHistory(table, chain, hours, t)]

\* the clock of the routes in isolation: ten days after the epoch
RouteNow == 10 * 24 * 3600000

\* a request and the table it finds
Scenarios ==
  LET
      \* a stored row of chain, as the collect route writes it
      HistoryRow(chain, avgGwei, t) ==
        Rows([timestamp |-> t,
              chains |-> <<ChainGasResult(chain, avgGwei, FALLBACK_PRICES)>>])[1]
      \* rows eight days, two hours and three minutes old
      SmallRows ==
        {HistoryRow(c.chain, c.avgGwei, RouteNow - age) :
           c \in {[chain |-> Ethereum(<<>>), avgGwei |-> Num(30 * Denom)],
                  [chain |-> Solana(<<>>), avgGwei |-> Num(10)]},
           age \in {8 * 24 * 3600000, 2 * 3600000, 3 * 60000}}
      \* the age in minutes of the i-th inserted of n rows
      AgeOf(order, i, n) ==
        IF order = "oldestFirst" THEN n - i + 1
        ELSE IF order = "newestFirst" THEN i
        ELSE IF i % 2 = 1 THEN n - (i - 1) \div 2
        ELSE i \div 2
      \* n snapshots of one chain, a minute apart
      BigTable(n, order) ==
        [i \in 1..n |->
           HistoryRow(Ethereum(<<>>), Num(30 * Denom),
                      RouteNow - AgeOf(order, i, n) * 60000)]
      BigTables ==
        {BigTable(n, order) :
           n \in {n \in 1..MaxSnapshots : n % MaxPoints \in {0, 1, MaxPoints - 1}}
                  \cup {MaxSnapshots},
           order \in {"oldestFirst", "newestFirst", "mixed"}}
      HoursParams ==
        {[present |-> FALSE, text |-> <<>>]}
        \cup {[present |-> TRUE, text |-> t] :
                t \in {<<>>, <<"a", "b", "c">>, <<"-", "5">>, <<"0", ".", "0", "5">>,
                       <<"1">>, <<"2", "4">>, <<"1", "6", "9">>,
                       <<"9", "9", "9", "9">>}}
      ChainParams ==
        { [present |-> FALSE, id |-> ""], [present |-> TRUE, id |-> "ethereum"] }
      HistoryRequest(chain, hours) ==
        [kind |-> "history", chain |-> chain, hours |-> hours]
  IN
  {[table |-> <<>>, request |-> r] : r \in GasRequests}
  \cup
  {[table |-> tb, request |-> HistoryRequest(c, h)] :
     tb \in SeqsUpTo(SmallRows, MaxTable), c \in ChainParams,
     h \in HoursParams}
  \cup
  {[table |-> tb,
    request |-> HistoryRequest(c, [present |-> TRUE, text |-> <<"2", "4">>])] :
     tb \in BigTables, c \in ChainParams}

InitRoutes ==
  \E sc \in Scenarios :
    /\ LoadedWith(ChainsFull, {"gasAll"}, 1, RouteNow, sc.table)
    /\ credentials = NoCredentials
    /\ probe = sc.request
    /\ probeOut = NotRun

\* A request to the gas route is served.
GasRequestServed ==
  /\ probe.kind = "gas"
  /\ ~probeOut.ran
  /\ probeOut' = GasGET(chains, probe, now)
  /\ UNCHANGED <<configVars, outerVars, now, cacheVars, gas_history, passVars, probe>>

\* A request to the history route is served.
HistoryRequestServed ==
  /\ probe.kind = "history"
  /\ ~probeOut.ran
  /\ probeOut' = HistoryGET(gas_history, probe, now)
  /\ UNCHANGED <<configVars, outerVars, now, cacheVars, gas_history, passVars, probe>>

NextRoutes == GasRequestServed \/ HistoryRequestServed

SpecRoutes == InitRoutes /\ [][NextRoutes]_vars

(***************************************************************************)
(* The all-chains chart of the dashboard (AllChainsSwapChart).  It polls   *)
(* the gas-all route and merges every batch into chainMapRef, an object    *)
(* keyed by chain id, whose values it displays.                            *)
(***************************************************************************)
\* for (const c of data.chains) chainMapRef.current[c.chain] = c
RECURSIVE MergeChains(_, _)
MergeChains(map, cs) ==
  IF cs = <<>> THEN map
  ELSE LET c == Head(cs)
           put == IF \E i \in DOMAIN map : map[i].chain = c.chain
                  THEN [i \in DOMAIN map |->
                          IF map[i].chain = c.chain THEN c ELSE map[i]]
                  ELSE Append(map, c)
       IN MergeChains(put, Tail(cs))

\* a variant that displays the chains of the last batch only
fetchDataLatestOnly(ch, r) ==
  IF r.transport # "ok" \/ r.body.status # 200 THEN ch
  ELSE [chainMap |-> r.body.chains, latestData |-> r.body.chains]

\* fetchData from the response on: r.transport is "throw" when fetch or
\* res.json() rejects, r.body is the response of the gas-all route
fetchData(ch, r) ==
  IF r.transport # "ok" \/ r.body.status # 200 THEN ch
  ELSE LET merged == MergeChains(ch.chainMap, r.body.chains)
       IN [chainMap |-> merged, latestData |-> merged]

\* what a poll of the gas-all route may bring: no response, an error
\* response, or the batch of a pass in which every chain resolved to null
\* or to one of two fees
GasAllResponses ==
  {[kind |-> "gasAll", transport |-> t, body |-> Error500] :
     t \in {"throw", "ok"}}
  \cup
  {[kind |-> "gasAll", transport |-> "ok",
    body |-> [status |-> 200, ok |-> TRUE, collected |-> 0,
              timestamp |-> StartTime,
              chains |-> fetchAllChainsGas(ChainsFull, g, FALLBACK_PRICES,
                                           StartTime).chains]] :
     g \in [1..Len(ChainsFull) -> {Null, Num(0), Num(10)}]}

InitChart == Loaded(ChainsFull, {"gasAll"}, 1) /\ probe = NoProbe
             /\ probeOut = NotRun

\* A poll of the chart ends; probe keeps what it brought.
ChartPollEnds ==
  \E r \in GasAllResponses :
    /\ probe' = r
    /\ chart' = fetchData(chart, r)
    /\ UNCHANGED <<configVars, now, cacheVars, gas_history, passVars,
                   probeOut, credentials, home>>

SpecChart == InitChart /\ [][ChartPollEnds]_vars

\* ---------------------------------------------------------------------
\* The dashboard page.  gasData is "" for null, else the chain of the
\* GasData on display; a history point is [chain, id, k]: the chain it was
\* measured on, the request that brought it, its place in that response (0
\* for a live point).  A request in flight keeps the selectedChain of the
\* render that started it.
MAX_HISTORY == 60

\* points.slice(-n)
slice(points, n) ==
  IF Len(points) <= n THEN points
  ELSE SubSeq(points, Len(points) - n + 1, Len(points))

\* setSelectedChain(c), and the effects of the render that follows
SelectChain(c) ==
  /\ c \in {chains[i].id : i \in DOMAIN chains}
  /\ c # home.selectedChain
  /\ home.issued + 2 <= MaxFetches
  /\ home' = [home EXCEPT
       !.selectedChain = c,
       !.gasData = "",
       !.history = IF c \in DOMAIN home.historyRef
                   THEN home.historyRef[c] ELSE <<>>,
       !.pending = @ \cup
         {[kind |-> "history", chain |-> c, id |-> home.issued + 1],
          [kind |-> "gas", chain |-> c, id |-> home.issued + 2]},
       !.issued = @ + 2]
  /\ UNCHANGED <<configVars, now, cacheVars, gas_history, passVars,
                 probeVars, chart, credentials>>

\* setInterval(fetchGasData, REFRESH_INTERVAL) fires
IntervalFires ==
  /\ home.issued + 1 <= MaxFetches
  /\ home' = [home EXCEPT
       !.pending = @ \cup {[kind |-> "gas", chain |-> home.selectedChain,
                            id |-> home.issued + 1]},
       !.issued = @ + 1]
  /\ UNCHANGED <<configVars, now, cacheVars, gas_history, passVars,
                 probeVars, chart, credentials>>

\* The two fetches of a fetchGasData call settle.
fetchGasDataSettles(r, ok) ==
  /\ r \in home.pending
  /\ r.kind = "gas"
  /\ home' =
       IF ~ok THEN [home EXCEPT !.pending = @ \ {r}]
       ELSE LET chainHistory ==
                  IF r.chain \in DOMAIN home.historyRef
                  THEN home.historyRef[r.chain] ELSE <<>>
                updatedHistory ==
                  slice(Append(chainHistory,
                               [chain |-> r.chain, id |-> r.id, k |-> 0]),
                        MAX_HISTORY)
            IN [home EXCEPT
                  !.pending = @ \ {r},
                  !.gasData = r.chain,
                  !.historyRef = (r.chain :> updatedHistory) @@ @,
                  !.history = updatedHistory]
  /\ UNCHANGED <<configVars, now, cacheVars, gas_history, passVars,
                 probeVars, chart, credentials>>

\* The history load of an effect settles with n points.
HistoryLoadSettles(r, ok, n) ==
  /\ r \in home.pending
  /\ r.kind = "history"
  /\ home' =
       IF ~ok \/ n = 0 THEN [home EXCEPT !.pending = @ \ {r}]
       ELSE LET points ==
                  [k \in 1..n |-> [chain |-> r.chain, id |-> r.id, k |-> k]]
            IN [home EXCEPT
                  !.pending = @ \ {r},
                  !.historyRef = (r.chain :> slice(points, MAX_HISTORY)) @@ @,
                  !.history = slice(points, MAX_HISTORY)]
  /\ UNCHANGED <<configVars, now, cacheVars, gas_history, passVars,
                 probeVars, chart, credentials>>

NextHome ==
  \/ \E c \in {"ethereum", "solana", "bsc"} : SelectChain(c)
  \/ IntervalFires
  \/ \E r \in home.pending, ok \in BOOLEAN : fetchGasDataSettles(r, ok)
  \/ \E r \in home.pending, ok \in BOOLEAN, n \in 0..2 :
       HistoryLoadSettles(r, ok, n)

SpecHome == Init /\ [][NextHome]_vars

(***************************************************************************)
(* Properties.                                                             *)
(***************************************************************************)

\* C1: getChainGasGwei contacts the endpoints in the order of rpcs (primary
\* first), every attempt before the last one failed, a non-null result is
\* the value of the first attempt that succeeded, and the result is null
\* exactly when every endpoint of the chain was tried and failed.
C1_FirstSuccessInOrder ==
  \A s \in Slots, c \in ChainIdx :
    LET t == tried[s][c]
        rpcs == Rpcs(chains[c])
        g == gasResults[s][c]
    IN /\ Len(t) <= Len(rpcs)
       /\ \A i \in 1..Len(t) : t[i].rpc = rpcs[i]
       /\ \A i \in 1..(Len(t) - 1) : t[i].threw
       /\ g = Pending => \A i \in 1..Len(t) : t[i].threw
       /\ g # Pending /\ phase[s] # "idle" =>
            /\ Len(t) >= 1
            /\ (g = Null) <=>
                 (Len(t) = Len(rpcs) /\ \A i \in 1..Len(t) : t[i].threw)
            /\ g # Null => ~t[Len(t)].threw /\ g = t[Len(t)].value

\* a chain resolved by its last fallback, next to a chain that is null
C1_Witness ==
  \E s \in Slots, c, d \in ChainIdx :
    /\ Len(tried[s][c]) = 3
    /\ IsNum(gasResults[s][c])
    /\ gasResults[s][d] = Null
    /\ Len(tried[s][d]) = 2

\* C2: in a batch, a chain whose result is null is absent, every other
\* chain is present exactly once with its own result (a zero fee included),
\* and the entries follow the configuration order.
C2_BatchMembership ==
  \A s \in Slots :
    batch[s].state = "resolved" =>
      LET bc == batch[s].chains
          g == gasResults[s]
          At(i) == CHOOSE c \in ChainIdx : chains[c].id = bc[i].chain
      IN /\ \A c \in ChainIdx :
              Cardinality({i \in DOMAIN bc : bc[i].chain = chains[c].id})
                = IF g[c] = Null THEN 0 ELSE 1
         /\ \A i \in DOMAIN bc :
              /\ \E c \in ChainIdx : chains[c].id = bc[i].chain
              /\ bc[i].avgGwei = g[At(i)]
         /\ \A i, j \in DOMAIN bc : i < j => At(i) < At(j)

\* a batch without the first chain, with a zero fee for the second
C2_Witness ==
  \E s \in Slots :
    /\ batch[s].state = "resolved"
    /\ gasResults[s][1] = Null
    /\ gasResults[s][2] = Num(0)
    /\ Len(batch[s].chains) = 2

\* C3: for an EVM endpoint attempt whose eth_gasPrice call succeeds, the
\* attempt succeeds; its value is exactly the legacy gas price when the
\* chain is not EIP-1559 or the fee-history call fails (or returns no
\* object), and the larger of the legacy gas price and
\* latestBaseFee + mean(tips) when the fee history is well formed.
C3_RepresentativeFee ==
  (probe.kind = "evm" /\ probeOut.ran) =>
    LET gpOk == probe.gp.transport = "ok" /\ ~probe.gp.error
        fhOk == probe.fh.transport = "ok" /\ ~probe.fh.error
        fh == probe.fh.result
        legacy == ParseGwei(probe.gp.result)
        n == Len(fh.reward)
        tips == [i \in 1..n |-> ParseGwei(FirstOf(fh.reward[i]))]
        wellFormed ==
          /\ ~fh.isNull /\ Len(fh.baseFeePerGas) > 0 /\ n > 0
          /\ \A i \in 1..n : IsNum(tips[i])
          /\ IsNum(legacy)
        base == ParseGwei(fh.baseFeePerGas[Len(fh.baseFeePerGas)])
        viaHistory == n * base.v + SumTips(tips).v
    IN /\ probeOut.threw <=> ~gpOk
       /\ gpOk /\ (~probe.isEIP1559 \/ ~fhOk \/ fh.isNull) =>
            probeOut.value = legacy
       /\ gpOk /\ probe.isEIP1559 /\ fhOk /\ wellFormed =>
            /\ IsNum(probeOut.value)
            /\ n * probeOut.value.v =
                 IF viaHistory >= n * legacy.v THEN viaHistory
                 ELSE n * legacy.v

\* an EIP-1559 attempt whose fee history lies below the legacy gas price
C3_Witness ==
  /\ probe.kind = "evm" /\ probeOut.ran /\ probe.isEIP1559
  /\ probe.gp = Env("ok", FALSE, Hex("1", "e"))
  /\ probe.fh = Env("ok", FALSE,
                    FeeHistory(FALSE, <<Hex("1", "4")>>,
                               << <<Hex("0", "2")>>, <<Hex("0", "5")>> >>))
  /\ probeOut.value = Num(30 * Denom)

C5_OneRequestPerWindow ==
  [][\A s \in Slots :
       ( /\ phase[s] # "running" /\ phase'[s] = "running"
         /\ priceState'[s] = "inflight"
         /\ \A q \in Slots :
              ~(phase[q] = "running" /\ priceState[q] = "inflight")
         /\ lastRequestAt > 0 )
       => now - lastRequestAt >= 120000]_vars

\* C5, amended: a fetchAllPrices call made less than 120 000 ms after a
\* successful refresh returns the cache unchanged without a price request;
\* a call made when no refresh has succeeded yet, or 120 000 ms or more
\* after the last successful one, issues a request.
C5_FreshCacheNoRequest ==
  [][\A s \in Slots :
       (phase[s] # "running" /\ phase'[s] = "running") =>
         IF lastPriceFetch > 0 /\ now - lastPriceFetch < 120000
         THEN /\ priceState'[s] = "hit"
              /\ lastRequestAt' = lastRequestAt
              /\ priceCache' = priceCache
              /\ lastPriceFetch' = lastPriceFetch
         ELSE /\ priceState'[s] = "inflight"
              /\ lastRequestAt' = now]_vars

\* a pass served from the cache, half a TTL after the refresh
C5_Witness ==
  \E s \in Slots :
    /\ phase[s] = "running"
    /\ priceState[s] = "hit"
    /\ now - lastPriceFetch = TickMs

\* C6: at most one price request is in flight at any time.
C6_SingleInFlight ==
  Cardinality({s \in Slots :
                 phase[s] = "running" /\ priceState[s] = "inflight"}) <= 1

\* C7: a failed price request (fetch or JSON error, or a body with a
\* status field) leaves every cache entry and lastPriceFetch unchanged, the
\* pass is priced from the cache, and unless another call has refreshed
\* the cache meanwhile the cache is still stale, so a call made right
\* after the failure issues a new request.
C7_FailureLeavesCache ==
  [][\A s \in Slots :
       (priceState[s] = "inflight" /\ priceState'[s] = "failed") =>
         /\ priceCache' = priceCache
         /\ lastPriceFetch' = lastPriceFetch
         /\ batch'[s].state = "resolved" =>
              \A i \in DOMAIN batch'[s].chains :
                \E c \in ChainIdx :
                  /\ chains[c].id = batch'[s].chains[i].chain
                  /\ batch'[s].chains[i].tokenPrice =
                       priceCache[chains[c].nativeToken]
         /\ lastPriceFetch' = priceSeen[s] =>
              ~(lastPriceFetch' > 0 /\ now' - lastPriceFetch' < 120000)]_vars

\* a pass whose price request failed after an earlier refresh had expired
C7_Witness ==
  \E s \in Slots :
    /\ priceState[s] = "failed"
    /\ lastPriceFetch > 0
    /\ lastPriceFetch = priceSeen[s]
    /\ batch[s].state = "resolved"
    /\ Len(batch[s].chains) > 0

\* C8: the price of every configured chain's native token is present in
\* the cache and is not 0, and no batch entry carries a 0 token price.
C8_PriceNeverZero ==
  /\ \A c \in ChainIdx :
       /\ chains[c].nativeToken \in DOMAIN priceCache
       /\ priceCache[chains[c].nativeToken] # 0
  /\ \A s \in Slots :
       \A i \in DOMAIN batch[s].chains : batch[s].chains[i].tokenPrice # 0

\* a refresh that quoted solana at 0 was applied: solana keeps its
\* fallback, ethereum has the quoted price, and a batch was priced
C8_Witness ==
  /\ lastPriceFetch > 0
  /\ priceCache["solana"] = FALLBACK_PRICES["solana"]
  /\ priceCache["ethereum"] # FALLBACK_PRICES["ethereum"]
  /\ \E s \in Slots : Len(batch[s].chains) = Len(chains)

\* C9: fetchAllChainsGas never rejects: a pass either still has a request
\* outstanding or has resolved with {timestamp, chains[]}, whatever the
\* endpoints and the price request answered; after a failed price request
\* the entries carry the cache's (stale or fallback) prices.
C9_NeverRejects ==
  \A s \in Slots :
    /\ batch[s].state # "rejected"
    /\ \A c \in ChainIdx : gasResults[s][c] # Rejected
    /\ phase[s] = "running" =>
         \/ priceState[s] = "inflight"
         \/ \E c \in ChainIdx : gasResults[s][c] = Pending
    /\ phase[s] = "done" =>
         /\ batch[s].state = "resolved"
         /\ batch[s].timestamp > 0
         /\ handler[s] = "gasAll" => response[s].status = 200
         /\ priceState[s] = "failed" =>
              \A i \in DOMAIN batch[s].chains :
                batch[s].chains[i].tokenPrice > 0

\* a pass resolved although its price request and every endpoint failed
C9_Witness ==
  \E s \in Slots :
    /\ phase[s] = "done"
    /\ priceState[s] = "failed"
    /\ \A c \in ChainIdx : gasResults[s][c] = Null
    /\ batch[s].state = "resolved"
    /\ batch[s].chains = <<>>

\* C10: a collection whose batch resolved answers with that result; a
\* failure of the history write does not turn it into a collection failure.
C10_PersistenceFailureHidden ==
  \A s \in Slots :
    (phase[s] = "done" /\ handler[s] = "collect"
       /\ batch[s].state = "resolved") =>
      /\ response[s].ok
      /\ response[s].status = 200
      /\ response[s].timestamp = batch[s].timestamp

\* C11: at most one snapshot is persisted per minimum interval: a collection
\* invoked sooner than the interval after the last persisted snapshot writes
\* no rows.  Whatever positive interval is configured, a step that appends
\* rows to a non-empty table must then find the clock strictly later than
\* the timestamp of the last persisted row.  (Violated: the collect route
\* inserts the rows of every batch; no interval is kept or compared.)
C11_MinIntervalThrottle ==
  [][(gas_history' # gas_history /\ gas_history # <<>>)
       => now > gas_history[Len(gas_history)].timestamp]_vars

\* C12: if the primary endpoint of a chain fails and the first fallback
\* succeeds, getChainGasGwei returns exactly what the per-endpoint resolution
\* (fetchGasFromRpc / fetchSolanaGas) yields on the fallback's reply alone;
\* the failed primary attempt has no effect on the result.
C12_FallbackAsDirect ==
  \A s \in Slots : \A c \in ChainIdx :
    LET t == tried[s][c] IN
    (Len(t) = 2 /\ t[1].threw /\ ~t[2].threw)
      => /\ t[1].rpc = chains[c].rpcUrl
         /\ t[2].rpc = chains[c].rpcFallbacks[1]
         /\ gasResults[s][c] = EndpointOutcome(chains[c], t[2].reply).value

C12_Witness ==
  \E s \in Slots : \E c \in ChainIdx :
    LET t == tried[s][c] IN
    /\ Len(t) = 2 /\ t[1].threw /\ ~t[2].threw
    /\ IsNum(gasResults[s][c]) /\ gasResults[s][c].v > 0
    /\ phase[s] = "done"

\* C13: for every EIP-1559 EVM chain the tiers returned by the gas route
\* satisfy average >= currentGasPrice, low >= currentGasPrice * 0.85 and
\* high >= currentGasPrice * 1.15, whatever the fee-history response holds.
\* (Violated: an empty reward list or an empty base-fee list makes every
\* tier NaN, which Math.max propagates and the response carries as null.)
C13_TierFloors ==
  LET c == FindChain(chains, probe.chain)
      currentGasPrice == ParseGwei(probe.gp.result)
  IN (probe.kind = "gas" /\ probeOut.ran /\ probeOut.status = 200
      /\ chains[c].chainType = "evm" /\ chains[c].isEIP1559
      /\ IsNum(currentGasPrice))
       => /\ IsNum(probeOut.low) /\ IsNum(probeOut.average)
          /\ IsNum(probeOut.high)
          /\ probeOut.average.v >= 20 * currentGasPrice.v
          /\ probeOut.low.v >= 17 * currentGasPrice.v
          /\ probeOut.high.v >= 23 * currentGasPrice.v

\* C14: when fee-history percentiles are available the tiers are
\* low = max(baseFee + p10Tip, gasPrice * 0.85), average = max(baseFee +
\* p50Tip, gasPrice), high = max(baseFee + p90Tip, gasPrice * 1.15), baseFee
\* being the latest base fee; base fee 20, tips 1/2/5 and gas price 22 give
\* 21, 22 and 25.3.  (Violated: when the latest-block request that follows
\* the tier computation fails, the same catch discards the tiers and the
\* response carries the +/-15% band around the gas price.)
C14_FeeHistoryTiers ==
  LET c == FindChain(chains, probe.chain)
      gasPrice == ParseGwei(probe.gp.result)
      fh == probe.fh.result
      baseFee == LatestBaseFee(fh)
      \* the call succeeded and its result has a base fee and at least one
      \* reward row, each of three tips
      PercentilesAvailable ==
        /\ ~rpcCall(probe.fh).threw
        /\ ~fh.isNull
        /\ Len(fh.baseFeePerGas) > 0
        /\ Len(fh.reward) > 0
        /\ \A i \in 1..Len(fh.reward) : Len(fh.reward[i]) = 3
  IN (probe.kind = "gas" /\ probeOut.ran /\ probeOut.status = 200
      /\ chains[c].chainType = "evm" /\ chains[c].isEIP1559
      /\ IsNum(gasPrice) /\ PercentilesAvailable)
       => /\ probeOut.low =
               MathMax(Tier(Plus(baseFee, AvgTip(fh, 1))), Times085(gasPrice))
          /\ probeOut.average =
               MathMax(Tier(Plus(baseFee, AvgTip(fh, 2))), Tier(gasPrice))
          /\ probeOut.high =
               MathMax(Tier(Plus(baseFee, AvgTip(fh, 3))), Times115(gasPrice))
          /\ (/\ fh.baseFeePerGas[Len(fh.baseFeePerGas)] = Hex("1", "4")
              /\ fh.reward = <<<<Hex("0", "1"), Hex("0", "2"), Hex("0", "5")>>>>
              /\ probe.gp.result = Hex("1", "6"))
               => /\ probeOut.low = Num(420 * Denom)
                  /\ probeOut.average = Num(440 * Denom)
                  /\ probeOut.high = Num(506 * Denom)

\* C16: for a Solana chain the tiers are synthesized from the representative
\* value: average is what the resolver yields (the median of the strictly
\* positive prioritization fees, 0 if none) and low / high are 0.85 and 1.15
\* times that average.  (Violated: handleSolanaGas takes the 25th, 50th and
\* 75th percentile of all the fees, zeros included.)
C16_SolanaBand ==
  LET c == FindChain(chains, probe.chain)
      representative == fetchSolanaGas(probe.sol).value
  IN (probe.kind = "gas" /\ probeOut.ran /\ probeOut.status = 200
      /\ chains[c].chainType = "solana")
       => /\ probeOut.average = Tier(representative)
          /\ probeOut.low = Times085(representative)
          /\ probeOut.high = Times115(representative)

\* C17: for every chain of a batch swapCostUsd = max(0, cost), where cost is
\* (fee * SWAP_GAS_LIMIT) / 1e9 * tokenPrice for an EVM chain and (base
\* signature fee * signature count + priority fee * compute units) / 1e9 *
\* tokenPrice for Solana; swapCostUsd is never negative.  (Violated for
\* Solana: the priority part is divided by 1e6 before it is added.)
C17_SwapCost ==
  (probe.kind = "cost" /\ probeOut.ran /\ IsNum(probe.avgGwei)) =>
    LET chain == probe.chain
        fee == probe.avgGwei.v
        tokenPrice == PriceOf(probe.prices, chain.nativeToken)
        lamports == SOLANA_BASE_FEE_LAMPORTS * signaturesPerSwap(chain)
                      + fee * computeUnitsPerSwap(chain)
        tokens == IF chain.chainType = "solana" THEN 10 * lamports
                  ELSE fee * SWAP_GAS_LIMIT
        negative == (tokens < 0) # (tokenPrice < 0)
        cost == probeOut.value.swapCostUsd
    IN /\ cost.k = "num"
       /\ ~((cost.token < 0) # (cost.price < 0))
       /\ cost = IF tokens = 0 \/ tokenPrice = 0 \/ negative THEN ZeroUsd
                 ELSE [k |-> "num", token |-> tokens, price |-> tokenPrice]

\* C17, amended: the priority fee is in micro-lamports per compute unit, so
\* the Solana cost is (base signature fee * signature count + priority fee *
\* compute units / 1e6) / 1e9 * tokenPrice.
C17_SwapCostMicroLamports ==
  (probe.kind = "cost" /\ probeOut.ran /\ IsNum(probe.avgGwei)) =>
    LET chain == probe.chain
        fee == probe.avgGwei.v
        tokenPrice == PriceOf(probe.prices, chain.nativeToken)
        \* tenths of a lamport
        lamports10 ==
          10 * SOLANA_BASE_FEE_LAMPORTS * signaturesPerSwap(chain)
            + (fee * computeUnitsPerSwap(chain)) \div 100000
        tokens == IF chain.chainType = "solana" THEN lamports10
                  ELSE fee * SWAP_GAS_LIMIT
        negative == (tokens < 0) # (tokenPrice < 0)
        cost == probeOut.value.swapCostUsd
    IN /\ cost.k = "num"
       /\ ~((cost.token < 0) # (cost.price < 0))
       /\ cost = IF tokens = 0 \/ tokenPrice = 0 \/ negative THEN ZeroUsd
                 ELSE [k |-> "num", token |-> tokens, price |-> tokenPrice]
       /\ (fee * computeUnitsPerSwap(chain)) % 100000 = 0

\* a Solana swap of two signatures at 10 micro-lamports per compute unit:
\* 10000 lamports of base fee and 2 lamports of priority fee
C17_Witness ==
  /\ probe.kind = "cost" /\ probeOut.ran
  /\ probe.chain = SolanaHeavy /\ probe.avgGwei = Num(10)
  /\ probe.prices = FALLBACK_PRICES
  /\ probeOut.value.swapCostUsd =
       [k |-> "num", token |-> 100020, price |-> 15000]

\* C15: for an EVM chain without usable fee history (not EIP-1559, or the
\* fee-history call failed) the tiers of the gas route are exactly 0.85, 1
\* and 1.15 times the legacy gas price (30 gives 25.5, 30, 34.5), and
\* queryChainHistory rebuilds low and high of every stored point by the
\* same rule from the stored average.
C15_FallbackBand ==
  /\ LET c == FindChain(chains, probe.chain)
         gasPrice == ParseGwei(probe.gp.result)
     IN (probe.kind = "gas" /\ probeOut.ran /\ probeOut.status = 200
         /\ chains[c].chainType = "evm"
         /\ (~chains[c].isEIP1559 \/ rpcCall(probe.fh).threw
             \/ probe.fh.result.isNull))
          => /\ IsNum(gasPrice) =>
                  /\ probeOut.low = Num(17 * gasPrice.v)
                  /\ probeOut.average = Num(20 * gasPrice.v)
                  /\ probeOut.high = Num(23 * gasPrice.v)
             /\ ~IsNum(gasPrice) =>
                  /\ probeOut.low = Null /\ probeOut.average = Null
                  /\ probeOut.high = Null
             /\ probe.gp.result = Hex("1", "e") =>
                  /\ probeOut.low = Num(510 * Denom)
                  /\ probeOut.average = Num(600 * Denom)
                  /\ probeOut.high = Num(690 * Denom)
  /\ (probe.kind = "history" /\ probeOut.ran /\ probe.chain.present) =>
       \A i \in 1..Len(probeOut.points) :
         LET p == probeOut.points[i] IN
         /\ 20 * p.low.v = 17 * p.average.v
         /\ 20 * p.high.v = 23 * p.average.v
         /\ \E j \in 1..Len(gas_history) :
              /\ gas_history[j].chain = probe.chain.id
              /\ gas_history[j].timestamp = p.timestamp
              /\ p.average.v = 20 * gas_history[j].avgGwei.v

\* a legacy chain at gas price 30: tiers 25.5, 30 and 34.5
C15_Witness ==
  /\ probe.kind = "gas" /\ probeOut.ran /\ probeOut.status = 200
  /\ probe.chain = "bsc" /\ probe.gp.result = Hex("1", "e")
  /\ probeOut.low = Num(510 * Denom)
  /\ probeOut.high = Num(690 * Denom)

\* C18: queryAllChainsHistory and queryChainHistory never return more than
\* 200 points, however many raw rows lie in the window, and when there are
\* at most 200 raw points none is dropped.
C18_AtMostMaxPoints ==
  (probe.kind = "history" /\ probeOut.ran /\ IsNum(probeOut.hours)) =>
    LET since == now - probeOut.hours.v * 36000
        inWindow == {j \in 1..Len(gas_history) :
                       /\ gas_history[j].timestamp > since
                       /\ probe.chain.present =>
                            gas_history[j].chain = probe.chain.id}
        \* a raw point is a row of the chain, or a timestamp of any row
        raw == IF probe.chain.present THEN Cardinality(inWindow)
               ELSE Cardinality({gas_history[j].timestamp : j \in inWindow})
        returned == {probeOut.points[i].timestamp :
                       i \in 1..Len(probeOut.points)}
    IN /\ Len(probeOut.points) <= 200
       /\ raw <= 200 =>
            /\ Len(probeOut.points) = raw
            /\ returned = {gas_history[j].timestamp : j \in inWindow}

\* 401 raw points are thinned to every third one
C18_Witness ==
  /\ probe.kind = "history" /\ probeOut.ran
  /\ Len(gas_history) = 401
  /\ Len(probeOut.points) = 134

\* C19: the points returned by queryAllChainsHistory and queryChainHistory
\* are ordered non-decreasing by timestamp, before and after grouping and
\* stride downsampling, in whatever order the rows were inserted.
C19_OrderedByTimestamp ==
  (probe.kind = "history" /\ probeOut.ran) =>
    LET rows == Select(gas_history, ChainOrAll(probe.chain),
                       Since(now, probeOut.hours))
    IN /\ \A i \in 1..Len(rows) : \A j \in (i + 1)..Len(rows) :
            rows[i].timestamp <= rows[j].timestamp
       /\ \A i \in 1..Len(probeOut.points) :
            \A j \in (i + 1)..Len(probeOut.points) :
              probeOut.points[i].timestamp <= probeOut.points[j].timestamp

\* rows inserted newest first, more than 200 of them in the window
C19_Witness ==
  /\ probe.kind = "history" /\ probeOut.ran
  /\ Len(gas_history) > 200
  /\ gas_history[1].timestamp > gas_history[2].timestamp
  /\ Len(probeOut.points) > 1
  /\ probeOut.points[1].timestamp < probeOut.points[2].timestamp

\* C20: for every value of the hours parameter (missing, non-numeric,
\* negative, larger than 168) the history route queries a window of at most
\* 168 hours and at least 0.1 hours, and no request retrieves rows older
\* than seven days.  (Violated: a non-numeric value parses to NaN, which
\* Math.max and Math.min pass on; the window is NaN and no row matches.)
C20_HoursWindow ==
  (probe.kind = "history" /\ probeOut.ran) =>
    /\ IsNum(probeOut.hours)
    /\ probeOut.hours.v >= 10
    /\ probeOut.hours.v <= 16800
    /\ \A i \in 1..Len(probeOut.points) :
         probeOut.points[i].timestamp > now - 7 * 24 * 3600000

\* C21: the history append never updates or deletes a stored row, and
\* appending rows that are already stored (the same snapshot a second time)
\* does not change the points the two history queries return.  (Violated:
\* the statement is a plain INSERT and the table has no uniqueness
\* constraint, so the per-chain query returns the snapshot twice.)
C21_IdempotentAppend ==
  [][gas_history' # gas_history =>
       LET n == Len(gas_history)
           added == SubSeq(gas_history', n + 1, Len(gas_history'))
           stored == \E k \in 1..n :
                       /\ k + Len(added) - 1 <= n
                       /\ SubSeq(gas_history, k, k + Len(added) - 1) = added
       IN /\ SubSeq(gas_history', 1, n) = gas_history
          /\ stored =>
               /\ queryAllChainsHistory(gas_history', Num(2400), now')
                    = queryAllChainsHistory(gas_history, Num(2400), now)
               /\ \A c \in ChainIdx :
                    queryChainHistory(gas_history', chains[c].id,
                                      Num(2400), now')
                      = queryChainHistory(gas_history, chains[c].id,
                                          Num(2400), now)]_vars

C23_ChainsIndependent ==
  \A s \in Slots :
    phase[s] = "done" =>
      /\ batch[s].state = "resolved"
      /\ \A c \in ChainIdx :
           LET t == tried[s][c]
               o == EndpointOutcome(chains[c], t[Len(t)].reply)
               entries == SelectSeq(batch[s].chains,
                                    LAMBDA e : e.chain = chains[c].id)
           IN /\ Len(t) >= 1
              /\ entries = IF o.threw THEN <<>>
                           ELSE <<ChainGasResult(chains[c], o.value,
                                                 priceCache)>>

\* a chain resolved by its primary endpoint in a pass in which every
\* endpoint of another chain failed
C23_Witness ==
  \E s \in Slots, c, d \in ChainIdx :
    /\ phase[s] = "done"
    /\ gasResults[s][d] = Null /\ Len(tried[s][d]) = 3
    /\ Len(tried[s][c]) = 1 /\ IsNum(gasResults[s][c])
    /\ \E i \in DOMAIN batch[s].chains :
         batch[s].chains[i].chain = chains[c].id

C25_OneRowPerBatchEntry ==
  [][\A s \in Slots :
       (phase[s] = "running" /\ phase'[s] = "done" /\ handler[s] = "collect")
         => LET n == Len(gas_history)
                added == SubSeq(gas_history', n + 1, Len(gas_history'))
                b == batch'[s].chains
            IN /\ SubSeq(gas_history', 1, n) = gas_history
               /\ ~response'[s].ok => added = <<>>
               /\ response'[s].ok =>
                    /\ response'[s].collected = Len(added)
                    /\ Len(added) = Len(b)
                    /\ \A c \in ChainIdx :
                         Cardinality({i \in DOMAIN added :
                                        added[i].chain = chains[c].id})
                           = IF gasResults'[s][c] = Null THEN 0 ELSE 1
                    /\ \A i \in DOMAIN added :
                         /\ added[i].timestamp = batch'[s].timestamp
                         /\ added[i].chain = b[i].chain
                         /\ added[i].avgGwei = b[i].avgGwei
                         /\ added[i].swapCostUsd = b[i].swapCostUsd
                         /\ added[i].tokenPrice = b[i].tokenPrice]_vars

\* a collection that stored the row of one chain while the other chain had
\* resolved to null
C25_Witness ==
  \E s \in Slots, c \in ChainIdx :
    /\ phase[s] = "done" /\ handler[s] = "collect"
    /\ response[s].ok /\ response[s].collected = 1
    /\ gasResults[s][c] = Null
    /\ Len(gas_history) = 1
    /\ gas_history[1].timestamp = batch[s].timestamp

\* C26: the chart displays the union of the chains of all batches it has
\* received: a batch adds its chains and replaces their entries, a chain
\* that a later batch omits keeps its last entry, and a poll that fails or
\* is answered with an error leaves the accumulated map as it was.
C26_ChartAccumulates ==
  [][LET r == probe'
         Ids(m) == {m[i].chain : i \in DOMAIN m}
         EntryOf(m, id) == m[CHOOSE i \in DOMAIN m : m[i].chain = id]
         old == chart.chainMap
         new == chart'.chainMap
     IN IF r.transport = "ok" /\ r.body.status = 200
        THEN /\ Ids(new) = Ids(old) \cup Ids(r.body.chains)
             /\ Len(new) = Cardinality(Ids(new))
             /\ \A id \in Ids(new) :
                  EntryOf(new, id) =
                    IF id \in Ids(r.body.chains)
                    THEN EntryOf(r.body.chains, id) ELSE EntryOf(old, id)
             /\ Ids(chart'.latestData) = Ids(new)
             /\ chart'.latestData = new
        ELSE chart' = chart]_vars

\* three chains displayed after a batch that held one of them
C26_Witness ==
  /\ probe.kind = "gasAll" /\ probe.transport = "ok"
  /\ probe.body.status = 200 /\ Len(probe.body.chains) = 1
  /\ Len(chart.latestData) = 3
  /\ \E i \in DOMAIN chart.chainMap :
       /\ chart.chainMap[i].chain # probe.body.chains[1].chain
       /\ chart.chainMap[i].avgGwei = Num(10)

C28_FiniteFees ==
  /\ \A s \in Slots :
       batch[s].state = "resolved" =>
         \A i \in DOMAIN batch[s].chains :
           /\ IsNum(batch[s].chains[i].avgGwei)
           /\ batch[s].chains[i].avgGwei.v >= 0
           /\ batch[s].chains[i].swapCostUsd.k = "num"
  /\ \A i \in DOMAIN gas_history :
       /\ IsNum(gas_history[i].avgGwei)
       /\ gas_history[i].avgGwei.v >= 0
       /\ gas_history[i].swapCostUsd.k = "num"

\* ---------------------------------------------------------------------
\* C29: on the dashboard page the gas data and the history on display
\* belong to the selected chain, or are empty.
C29_DisplayedBelongsToSelected ==
  /\ home.gasData \in {"", home.selectedChain}
  /\ \A i \in DOMAIN home.history :
       home.history[i].chain = home.selectedChain

\* ---------------------------------------------------------------------
\* C30 as stated: every 200 response of the per-chain gas route whose
\* inputs are non-negative numbers has low <= average <= high, on the
\* fee-history path, on the +/-15% path and on the Solana path.
C30_TiersOrdered ==
  LET c == FindChain(chains, probe.chain)
      fh == probe.fh.result
      \* the gas price is a number, and a fee history that arrived has a
      \* base fee and reward rows of three tips each
      NumericInputs ==
        chains[c].chainType = "evm" =>
          /\ IsNum(ParseGwei(probe.gp.result))
          /\ (~rpcCall(probe.fh).threw /\ ~fh.isNull) =>
               /\ Len(fh.baseFeePerGas) > 0
               /\ Len(fh.reward) > 0
               /\ \A i \in 1..Len(fh.reward) : Len(fh.reward[i]) = 3
  IN (probe.kind = "gas" /\ probeOut.ran /\ probeOut.status = 200
      /\ NumericInputs)
       => /\ IsNum(probeOut.low) /\ IsNum(probeOut.average)
          /\ IsNum(probeOut.high)
          /\ probeOut.low.v <= probeOut.average.v
          /\ probeOut.average.v <= probeOut.high.v

\* C30 amended: the same, for fee histories in which the three tips of
\* every reward row are in non-decreasing order.
C30_TiersOrderedForAscendingTips ==
  LET c == FindChain(chains, probe.chain)
      fh == probe.fh.result
      NumericInputs ==
        chains[c].chainType = "evm" =>
          /\ IsNum(ParseGwei(probe.gp.result))
          /\ (~rpcCall(probe.fh).threw /\ ~fh.isNull) =>
               /\ Len(fh.baseFeePerGas) > 0
               /\ Len(fh.reward) > 0
               /\ \A i \in 1..Len(fh.reward) :
                    /\ Len(fh.reward[i]) = 3
                    /\ ParseGwei(fh.reward[i][1]).v
                         <= ParseGwei(fh.reward[i][2]).v
                    /\ ParseGwei(fh.reward[i][2]).v
                         <= ParseGwei(fh.reward[i][3]).v
  IN (probe.kind = "gas" /\ probeOut.ran /\ probeOut.status = 200
      /\ NumericInputs)
       => /\ IsNum(probeOut.low) /\ IsNum(probeOut.average)
          /\ IsNum(probeOut.high)
          /\ probeOut.low.v <= probeOut.average.v
          /\ probeOut.average.v <= probeOut.high.v

\* a Solana response over fees that arrived out of order, with three
\* different tiers
C30_Witness ==
  /\ probe.kind = "gas" /\ probeOut.ran /\ probeOut.status = 200
  /\ probe.chain = "solana"
  /\ probe.sol.result.fees = <<15, 0, 10>>
  /\ probeOut.low.v < probeOut.average.v
  /\ probeOut.average.v < probeOut.high.v

====
